---- MODULE Spec2Model ----
(***************************************************************************)
(* Model of the intraday trade review tool: the trade pairing engine       *)
(* (analyze.pair_trades), the Trade value with its derived P&L, the        *)
(* scoring engine (analyze.score_trade), the Score with its totals and     *)
(* grade, and the batch run of analyze.main with its report; the pairing   *)
(* code of summary.py; the update endpoint of backend/api.py with its lock *)
(* and its job thread; the RateLimiter of fetch_data.py.                   *)
(*                                                                         *)
(* Representation of the Python values:                                    *)
(*   - an order row (dict) is a record [code, direction, filled,          *)
(*     fill_time, order_time]; the broker's Chinese column names and side  *)
(*     labels are written in ASCII: code = "代码", direction = "方向"      *)
(*     ("buy" = "买入", "sell" = "卖出", "short" = "卖空"),                *)
(*     filled = "已成交@均价", fill_time = "成交时间", order_time =        *)
(*     "下单时间";                                                         *)
(*   - the text "qty@price" is the pair <<qty, price>>;                    *)
(*   - the text "YYYY/MM/DD HH:MM:SS" is a record [date, hm, ss]: the day, *)
(*     the minute of the day and the second of the minute; a datetime is   *)
(*     the triple <<date, hm, ss>>; "%Y-%m-%d" keeps the day, "%H:%M"      *)
(*     keeps the minute of the day and drops the second and the day;       *)
(*   - Optional[x] is a sequence of length 0 (None) or 1;                  *)
(*   - a price is an integer and a float quotient is a fraction num/den;   *)
(*   - a dict is a function on its keys; the notes of a Score are the set  *)
(*     of their keys;                                                      *)
(*   - a call that raises yields the record [exception |-> name] in place  *)
(*     of its value.                                                       *)
(***************************************************************************)
EXTENDS Integers, Sequences, FiniteSets, TLC

VARIABLES orders, trades, pc, trade, records, qqq, prev_loss, sc,
          data_dir, results, rendered, summary_trades,
          update_lock, update_status, requests, jobs,
          clock, timestamps, limiter_pc, wait, recorded

vars ==
    <<orders, trades, pc, trade, records, qqq, prev_loss, sc, data_dir, results,
      rendered, summary_trades, update_lock, update_status, requests, jobs,
      clock, timestamps, limiter_pc, wait, recorded>>

\* ---------------------------------------------------------------- bounds

\* Longest list of order rows load_orders hands to pair_trades.
MaxOrders == 3

Tickers == {"AAA", "BBB"}
Directions == {"buy", "sell", "short"}
\* "qty@price" texts: two quantities, two prices.
Filleds == {<<1, 10>>, <<2, 11>>}
\* Fill times: two seconds of one minute, and an earlier minute of the next
\* day.
FillTimes ==
    { [date |-> 1, hm |-> 570, ss |-> 0], [date |-> 1, hm |-> 570, ss |-> 30],
      [date |-> 2, hm |-> 565, ss |-> 0] }

\* The order is submitted at the start of the minute it fills in.
OrderTimeOf(ft) == [date |-> ft.date, hm |-> ft.hm, ss |-> 0]

Orders ==
    { [code |-> c, direction |-> d, filled |-> f, fill_time |-> t,
       order_time |-> OrderTimeOf(t)] :
        c \in Tickers, d \in Directions, f \in Filleds, t \in FillTimes }

SeqsUpTo(S, n) == UNION { [1..k -> S] : k \in 0..n }

\* Longest input of the runs that merge the trades of two tickers: it holds
\* two round trips.
MaxMergeOrders == 4

\* Their fill times: a minute of one day and an earlier minute of the next.
MergeFillTimes ==
    { [date |-> 1, hm |-> 575, ss |-> 0], [date |-> 2, hm |-> 570, ss |-> 0] }

MergeOrders ==
    { [code |-> c, direction |-> d, filled |-> <<1, 10>>, fill_time |-> t,
       order_time |-> OrderTimeOf(t)] :
        c \in Tickers, d \in Directions, t \in MergeFillTimes }

\* Most round trips of an input made of whole round trips.
MaxTrips == 3

\* Their fill times: two minutes of one day and an earlier minute of the
\* next.
TripTimes ==
    { [date |-> 1, hm |-> 570, ss |-> 0], [date |-> 1, hm |-> 575, ss |-> 0],
      [date |-> 2, hm |-> 565, ss |-> 0] }

\* The spans of a round trip: the close not before the open.
TripSpans ==
    { tt \in TripTimes \X TripTimes :
        \/ tt[1].date < tt[2].date
        \/ tt[1].date = tt[2].date /\ tt[1].hm <= tt[2].hm }

\* A round trip: the opening row and the closing row.
Trips ==
    { << [code |-> c, direction |-> d[1], filled |-> <<1, 10>>,
          fill_time |-> tt[1], order_time |-> OrderTimeOf(tt[1])],
         [code |-> c, direction |-> d[2], filled |-> <<1, 11>>,
          fill_time |-> tt[2], order_time |-> OrderTimeOf(tt[2])] >> :
        c \in Tickers, d \in {<<"buy", "sell">>, <<"short", "buy">>},
        tt \in TripSpans }

RECURSIVE Flatten(_)
\* The rows of a list of round trips, trip after trip.
Flatten(ts) ==
    IF ts = <<>> THEN <<>> ELSE Flatten(SubSeq(ts, 1, Len(ts) - 1)) \o ts[Len(ts)]

\* ---------------------------------------------------------------- helpers

None == <<>>
Some(x) == <<x>>
Min(a, b) == IF a <= b THEN a ELSE b
Abs(a) == IF a < 0 THEN -a ELSE a

\* datetime.strptime(s.split(" (")[0].strip(), "%Y/%m/%d %H:%M:%S")
parse_dt(s) == <<s.date, s.hm, s.ss>>

\* dt.strftime("%Y-%m-%d")
strftime_date(dt) == dt[1]

\* dt.strftime("%H:%M")
strftime_hm(dt) == dt[2]

\* datetime's a <= b
DtLeq(a, b) ==
    \/ a[1] < b[1]
    \/ a[1] = b[1] /\ a[2] < b[2]
    \/ a[1] = b[1] /\ a[2] = b[2] /\ a[3] <= b[3]

\* '20@577.99' -> (20, 577.99)
parse_filled(s) == [qty |-> s[1], price |-> s[2]]

\* Mutant: the rows are ordered by the minute they fill in, not by the second.
OrderKeyLeq_minute(a, b) ==
    \/ a.fill_time.date < b.fill_time.date
    \/ a.fill_time.date = b.fill_time.date /\ a.fill_time.hm <= b.fill_time.hm

\* The key of ticker_orders.sort: the fill datetime.
OrderKeyLeq(a, b) == DtLeq(parse_dt(a.fill_time), parse_dt(b.fill_time))

\* Mutant: the trades are ordered by entry time alone.
TradeKeyLeq_time(a, b) == a.entry_time <= b.entry_time

\* The key of sorted(trades): (t.date, t.entry_time).
TradeKeyLeq(a, b) ==
    \/ a.date < b.date
    \/ a.date = b.date /\ a.entry_time <= b.entry_time

\* ---------------------------------------------------------------- Trade

\* Trade(...): the dataclass of a closed round trip.
Trade(ticker, date, direction, entry_time, entry_price, entry_order_time, exit_time, exit_price, quantity) ==
    [ticker |-> ticker, date |-> date, direction |-> direction,
     entry_time |-> entry_time, entry_price |-> entry_price,
     entry_order_time |-> entry_order_time,
     exit_time |-> exit_time, exit_price |-> exit_price,
     quantity |-> quantity]

\* Mutant: every trade counts as long.
sign_alwaysLong(t) == 1

\* Trade.sign
sign(t) == IF t.direction = "long" THEN 1 ELSE -1

\* Trade.pnl_pct: a float quotient, kept as the fraction num/den.
pnl_pct(t) ==
    [num |-> sign(t) * (t.exit_price - t.entry_price), den |-> t.entry_price]

\* Trade.pnl_usd
pnl_usd(t) == sign(t) * (t.exit_price - t.entry_price) * t.quantity

\* The sign of an integer, and of a fraction with a non-zero denominator.
Sgn(x) == IF x > 0 THEN 1 ELSE IF x < 0 THEN -1 ELSE 0
FracSgn(q) == Sgn(q.num) * Sgn(q.den)

\* ---------------------------------------------------------------- pairing

\* list.sort / sorted are stable: an element goes behind every element whose
\* key is not greater than its own.
InsertOrder(s, x) ==
    LET later == { i \in 1..Len(s) : ~OrderKeyLeq(s[i], x) }
        p == IF later = {} THEN Len(s) + 1
             ELSE CHOOSE i \in later : \A j \in later : i <= j
    IN  SubSeq(s, 1, p - 1) \o <<x>> \o SubSeq(s, p, Len(s))

RECURSIVE SortOrders(_)
\* ticker_orders.sort(key=lambda x: parse_dt(x["成交时间"]))
SortOrders(s) ==
    IF s = <<>> THEN <<>>
    ELSE InsertOrder(SortOrders(SubSeq(s, 1, Len(s) - 1)), s[Len(s)])

InsertTrade(s, x) ==
    LET later == { i \in 1..Len(s) : ~TradeKeyLeq(s[i], x) }
        p == IF later = {} THEN Len(s) + 1
             ELSE CHOOSE i \in later : \A j \in later : i <= j
    IN  SubSeq(s, 1, p - 1) \o <<x>> \o SubSeq(s, p, Len(s))

RECURSIVE SortTrades(_)
\* sorted(trades, key=lambda t: (t.date, t.entry_time))
SortTrades(s) ==
    IF s = <<>> THEN <<>>
    ELSE InsertTrade(SortTrades(SubSeq(s, 1, Len(s) - 1)), s[Len(s)])

RECURSIVE TickerKeys(_)
\* The keys of by_ticker, in insertion order: each code where it first appears.
TickerKeys(os) ==
    IF os = <<>> THEN <<>>
    ELSE LET ks == TickerKeys(SubSeq(os, 1, Len(os) - 1))
             c == os[Len(os)].code
         IN  IF \E i \in 1..Len(ks) : ks[i] = c THEN ks ELSE Append(ks, c)

\* by_ticker[ticker]: the rows of one code, in file order.
by_ticker(os, ticker) == SelectSeq(os, LAMBDA o : o.code = ticker)

\* The locals of the loop over one ticker's rows, with the trades list.
PairState(position, entry, ts) ==
    [position |-> position, entry |-> entry, trades |-> ts]

\* Mutant: the locals are set once, before the loop over the tickers.
TickerInit_shared(st) == st

\* position = 0; entry = None  (at the head of each ticker's loop)
TickerInit(st) == PairState(0, None, st.trades)

\* Mutant: a buy from flat opens a position of one share.
OpenLong_unitPosition(st, o) ==
    PairState(1, Some(o), st.trades)

\* direction == "买入" and position == 0
OpenLong(st, o) ==
    PairState(parse_filled(o.filled).qty, Some(o), st.trades)

\* Mutant: a short position is stored as a positive quantity.
OpenShort_positive(st, o) ==
    PairState(parse_filled(o.filled).qty, Some(o), st.trades)

\* direction == "卖空" and position == 0
OpenShort(st, o) ==
    PairState(-parse_filled(o.filled).qty, Some(o), st.trades)

\* Mutant: the Trade takes the quantity of the closing fill.
CloseLong_exitQty(st, ticker, o) ==
    LET entry == st.entry[1]
        e == parse_filled(entry.filled)
        e_dt == parse_dt(entry.fill_time)
        f == parse_filled(o.filled)
        fill_dt == parse_dt(o.fill_time)
    IN  PairState(0, None,
            Append(st.trades,
                Trade(ticker, strftime_date(e_dt), "long",
                      strftime_hm(e_dt), e.price,
                      strftime_hm(parse_dt(entry.order_time)),
                      strftime_hm(fill_dt), f.price,
                      f.qty)))

\* Mutant: the Trade takes the entry price from the closing fill and the
\* exit price from the open entry.
CloseLong_swappedPrices(st, ticker, o) ==
    LET entry == st.entry[1]
        e == parse_filled(entry.filled)
        e_dt == parse_dt(entry.fill_time)
        f == parse_filled(o.filled)
        fill_dt == parse_dt(o.fill_time)
    IN  PairState(0, None,
            Append(st.trades,
                Trade(ticker, strftime_date(e_dt), "long",
                      strftime_hm(e_dt), f.price,
                      strftime_hm(parse_dt(entry.order_time)),
                      strftime_hm(fill_dt), e.price,
                      Min(f.qty, e.qty))))

\* Mutant: a sell emits its Trade and leaves the long position open.
CloseLong_staysOpen(st, ticker, o) ==
    LET entry == st.entry[1]
        e == parse_filled(entry.filled)
        e_dt == parse_dt(entry.fill_time)
        f == parse_filled(o.filled)
        fill_dt == parse_dt(o.fill_time)
    IN  PairState(st.position, st.entry,
            Append(st.trades,
                Trade(ticker, strftime_date(e_dt), "long",
                      strftime_hm(e_dt), e.price,
                      strftime_hm(parse_dt(entry.order_time)),
                      strftime_hm(fill_dt), f.price,
                      Min(f.qty, e.qty))))

\* direction == "卖出" and position > 0 and entry
CloseLong(st, ticker, o) ==
    LET entry == st.entry[1]
        e == parse_filled(entry.filled)
        e_dt == parse_dt(entry.fill_time)
        f == parse_filled(o.filled)
        fill_dt == parse_dt(o.fill_time)
    IN  PairState(0, None,
            Append(st.trades,
                Trade(ticker, strftime_date(e_dt), "long",
                      strftime_hm(e_dt), e.price,
                      strftime_hm(parse_dt(entry.order_time)),
                      strftime_hm(fill_dt), f.price,
                      Min(f.qty, e.qty))))

\* Mutant: a cover smaller than the short position leaves the rest open.
CloseShort_residual(st, ticker, o) ==
    LET entry == st.entry[1]
        e == parse_filled(entry.filled)
        e_dt == parse_dt(entry.fill_time)
        f == parse_filled(o.filled)
        fill_dt == parse_dt(o.fill_time)
        rest == Abs(st.position) - Min(f.qty, Abs(st.position))
    IN  PairState(-rest, IF rest = 0 THEN None ELSE st.entry,
            Append(st.trades,
                Trade(ticker, strftime_date(e_dt), "short",
                      strftime_hm(e_dt), e.price,
                      strftime_hm(parse_dt(entry.order_time)),
                      strftime_hm(fill_dt), f.price,
                      Min(f.qty, Abs(st.position)))))

\* direction == "买入" and position < 0 and entry
CloseShort(st, ticker, o) ==
    LET entry == st.entry[1]
        e == parse_filled(entry.filled)
        e_dt == parse_dt(entry.fill_time)
        f == parse_filled(o.filled)
        fill_dt == parse_dt(o.fill_time)
    IN  PairState(0, None,
            Append(st.trades,
                Trade(ticker, strftime_date(e_dt), "short",
                      strftime_hm(e_dt), e.price,
                      strftime_hm(parse_dt(entry.order_time)),
                      strftime_hm(fill_dt), f.price,
                      Min(f.qty, Abs(st.position)))))

\* Mutant: a buy while long replaces the open entry.
pair_step_reopen(st, ticker, o) ==
    IF o.direction = "buy" /\ st.position >= 0 THEN OpenLong(st, o)
    ELSE IF o.direction = "short" /\ st.position = 0 THEN OpenShort(st, o)
    ELSE IF o.direction = "sell" /\ st.position > 0 /\ st.entry # None
        THEN CloseLong(st, ticker, o)
    ELSE IF o.direction = "buy" /\ st.position < 0 /\ st.entry # None
        THEN CloseShort(st, ticker, o)
    ELSE st

\* One iteration of "for o in ticker_orders": the if/elif chain.
pair_step(st, ticker, o) ==
    IF o.direction = "buy" /\ st.position = 0 THEN OpenLong(st, o)
    ELSE IF o.direction = "short" /\ st.position = 0 THEN OpenShort(st, o)
    ELSE IF o.direction = "sell" /\ st.position > 0 /\ st.entry # None
        THEN CloseLong(st, ticker, o)
    ELSE IF o.direction = "buy" /\ st.position < 0 /\ st.entry # None
        THEN CloseShort(st, ticker, o)
    ELSE st

RECURSIVE LoopState(_, _, _, _)
\* The state after the first k iterations over the sorted rows os of a ticker.
LoopState(st0, ticker, os, k) ==
    IF k = 0 THEN st0
    ELSE pair_step(LoopState(st0, ticker, os, k - 1), ticker, os[k])

\* The body of "for ticker, ticker_orders in by_ticker.items()".
PairTicker(st, os, ticker) ==
    LET ticker_orders == SortOrders(by_ticker(os, ticker))
    IN  LoopState(TickerInit(st), ticker, ticker_orders, Len(ticker_orders))

RECURSIVE TickersState(_, _, _)
\* The state after the loop bodies of the first n tickers.
TickersState(os, ks, n) ==
    IF n = 0 THEN PairState(0, None, <<>>)
    ELSE PairTicker(TickersState(os, ks, n - 1), os, ks[n])

\* pair_trades(orders)
pair_trades(os) ==
    LET ks == TickerKeys(os)
    IN  SortTrades(TickersState(os, ks, Len(ks)).trades)

\* ---------------------------------------------------------------- scoring: numbers

\* Prices, ratios and thresholds are Python floats; here a price is an
\* integer and a quotient is the fraction num/den with den > 0, compared by
\* cross-multiplication.
Frac(n, d) == [num |-> n, den |-> d]
FracLt(a, b) == a.num * b.den < b.num * a.den
FracLeq(a, b) == a.num * b.den <= b.num * a.den
FracGeq(a, b) == a.num * b.den >= b.num * a.den
FracGt(a, b) == a.num * b.den > b.num * a.den
Max(a, b) == IF a >= b THEN a ELSE b

STOP_LOSS_PCT == Frac(3, 100)
ACCOUNT_TOTAL == 100000
POSITION_PCT_TARGET == Frac(10, 100)
REL_VOL_HIGH == Frac(15, 10)
REL_VOL_LOW == Frac(12, 10)
CHASE_MAX == Frac(70, 100)
CHASE_WARN == Frac(85, 100)
BIAS_GOOD == Frac(3, 100)
BIAS_WARN == Frac(5, 100)
RS_OUTPERFORM == Frac(1, 100)
VOL_CONV_GOOD == Frac(15, 1000)
VOL_CONV_WARN == Frac(25, 1000)
CAPTURE_GOOD == Frac(60, 100)
CAPTURE_WARN == Frac(30, 100)
POST_MISS_GOOD == Frac(5, 1000)
POST_MISS_WARN == Frac(15, 1000)
STAGNATION_BARS == 5
STAGNATION_PCT == Frac(3, 1000)
REVENGE_MIN == 15
LAG_GOOD_MIN == 3
LAG_WARN_MIN == 5

\* ---------------------------------------------------------------- scoring: helpers

\* Bar(...): one minute of one ticker-day; ema10 and ema20 are Optional.
Bar(time, open, high, low, close, volume, ema10, ema20) ==
    [time |-> time, open |-> open, high |-> high, low |-> low,
     close |-> close, volume |-> volume, ema10 |-> ema10, ema20 |-> ema20]

\* d.get(key, []) of a dict of bar lists
Get(d, key) == IF key \in DOMAIN d THEN d[key] ELSE <<>>

\* s[a:b] for 0 <= a: the elements with Python index a .. b-1.
Slice(s, a, b) == SubSeq(s, a + 1, Min(b, Len(s)))

\* max(...) and min(...) of a non-empty set of numbers, and sum(...) of a
\* field over a list of bars.
SetMax(S) == CHOOSE x \in S : \A y \in S : y <= x
SetMin(S) == CHOOSE x \in S : \A y \in S : x <= y
MaxHigh(bars) == SetMax({ bars[i].high : i \in 1..Len(bars) })
MinLow(bars) == SetMin({ bars[i].low : i \in 1..Len(bars) })
RECURSIVE SumClose(_)
SumClose(bars) ==
    IF bars = <<>> THEN 0
    ELSE SumClose(SubSeq(bars, 1, Len(bars) - 1)) + bars[Len(bars)].close
RECURSIVE SumVolume(_)
SumVolume(bars) ==
    IF bars = <<>> THEN 0
    ELSE SumVolume(SubSeq(bars, 1, Len(bars) - 1)) + bars[Len(bars)].volume

\* bar_at: the Python index of the first bar with time >= time_str, the
\* last index when there is none.
bar_at(bars, time_str) ==
    LET hits == { i \in 1..Len(bars) : bars[i].time >= time_str }
    IN  IF hits # {} THEN SetMin(hits) - 1 ELSE Len(bars) - 1

\* The texts handed to time_diff_min: "HH:MM", and the f-string
\* "YYYY/MM/DD HH:MM".
HmText(hm) == [fmt |-> "%H:%M", hm |-> hm]
DateHmText(date, hm) == [fmt |-> "%Y/%m/%d %H:%M", date |-> date, hm |-> hm]

\* datetime.strptime(t, "%H:%M"): ValueError unless the text is HH:MM.
strptime_hm(t) ==
    IF t.fmt = "%H:%M" THEN [raised |-> FALSE, hm |-> t.hm] ELSE [raised |-> TRUE]

\* time_diff_min(t1, t2): minutes from t1 to t2, or the ValueError of strptime.
time_diff_min(t1, t2) ==
    LET dt1 == strptime_hm(t1)
        dt2 == strptime_hm(t2)
    IN  IF dt1.raised \/ dt2.raised THEN [raised |-> TRUE]
        ELSE [raised |-> FALSE, value |-> dt2.hm - dt1.hm]

\* ---------------------------------------------------------------- scoring: the 13 dimensions

\* Mutant: a short trade is tested with the inequalities of a long one.
ScoreS1_shortAsLong(eb, sgn) ==
    IF eb.ema10 # None /\ eb.ema20 # None
    THEN LET cond == << eb.close > eb.ema10[1], eb.ema10[1] > eb.ema20[1] >>
             met == Cardinality({ i \in 1..2 : cond[i] })
         IN  <<0, 5, 10>>[met + 1]
    ELSE 5

\* Mutant: a missing average counts as no condition met.
ScoreS1_missingIsZero(eb, sgn) ==
    IF eb.ema10 # None /\ eb.ema20 # None
    THEN LET cond == IF sgn = 1
                     THEN << eb.close > eb.ema10[1], eb.ema10[1] > eb.ema20[1] >>
                     ELSE << eb.close < eb.ema10[1], eb.ema10[1] < eb.ema20[1] >>
             met == Cardinality({ i \in 1..2 : cond[i] })
         IN  <<0, 5, 10>>[met + 1]
    ELSE 0

\* S1: trend alignment at the entry bar.
ScoreS1(eb, sgn) ==
    IF eb.ema10 # None /\ eb.ema20 # None
    THEN LET cond == IF sgn = 1
                     THEN << eb.close > eb.ema10[1], eb.ema10[1] > eb.ema20[1] >>
                     ELSE << eb.close < eb.ema10[1], eb.ema10[1] < eb.ema20[1] >>
             met == Cardinality({ i \in 1..2 : cond[i] })
         IN  <<0, 5, 10>>[met + 1]
    ELSE 5

\* S2: excess return against the benchmark over the 30 bars before entry.
ScoreS2(day, qqq_day, ei, entry_time, sgn) ==
    LET pre_start == Max(0, ei - 30)
        stock_pre == Slice(day, pre_start, ei + 1)
    IN  IF qqq_day # <<>> /\ stock_pre # <<>>
        THEN LET qi == bar_at(qqq_day, entry_time)
                 qqq_pre == Slice(qqq_day, Max(0, qi - 30), qi + 1)
             IN  IF qqq_pre # <<>>
                 THEN LET so == stock_pre[1].open
                          qo == qqq_pre[1].open
                          sr == Frac(stock_pre[Len(stock_pre)].close - so, so)
                          qr == Frac(qqq_pre[Len(qqq_pre)].close - qo, qo)
                          excess == Frac(sgn * (sr.num * qr.den - qr.num * sr.den),
                                         sr.den * qr.den)
                      IN  IF FracGt(excess, RS_OUTPERFORM) THEN 10
                          ELSE IF excess.num > 0 THEN 5 ELSE 0
                 ELSE 5
        ELSE 5

\* S3: range of the 10 bars before entry against their mean close.
ScoreS3(day, ei) ==
    LET pre10 == Slice(day, Max(0, ei - 10), ei)
    IN  IF pre10 # <<>>
        THEN LET rng == MaxHigh(pre10) - MinLow(pre10)
                 total == SumClose(pre10)
                 ratio == IF total # 0 THEN Frac(rng * Len(pre10), total)
                          ELSE Frac(1, 1)
             IN  IF FracLt(ratio, VOL_CONV_GOOD) THEN 10
                 ELSE IF FracLt(ratio, VOL_CONV_WARN) THEN 5 ELSE 0
        ELSE 5

\* E1: entry-bar volume against the mean volume of the 20 bars before.
ScoreE1(day, ei, eb) ==
    LET avg20 == Slice(day, Max(0, ei - 20), ei)
    IN  IF avg20 # <<>>
        THEN LET total == SumVolume(avg20)
                 rv == IF total # 0 THEN Frac(eb.volume * Len(avg20), total)
                       ELSE Frac(1, 1)
             IN  IF FracGeq(rv, REL_VOL_HIGH) THEN 10
                 ELSE IF FracGeq(rv, REL_VOL_LOW) THEN 5 ELSE 0
        ELSE 5

\* E2: where the entry price lies in the entry bar's range.
ScoreE2(eb, entry_price, sgn) ==
    LET bar_range == eb.high - eb.low
    IN  IF bar_range > 0
        THEN LET raw == Max(0, Min(bar_range, entry_price - eb.low))
                 chase == IF sgn = 1 THEN Frac(raw, bar_range)
                          ELSE Frac(bar_range - raw, bar_range)
             IN  IF FracLt(chase, CHASE_MAX) THEN 10
                 ELSE IF FracLt(chase, CHASE_WARN) THEN 5 ELSE 0
        ELSE 5

\* Mutant: E3 scored out of 10 like the other entry dimensions.
ScoreE3_outOfTen(eb, entry_price) ==
    IF eb.ema20 # None /\ eb.ema20[1] # 0 /\ eb.ema20[1] > 0
    THEN LET bias == Frac(Abs(entry_price - eb.ema20[1]), eb.ema20[1])
         IN  IF FracLt(bias, BIAS_GOOD) THEN 10
             ELSE IF FracLt(bias, BIAS_WARN) THEN 5 ELSE 0
    ELSE 5

\* E3: distance of the entry price from EMA20.
ScoreE3(eb, entry_price) ==
    IF eb.ema20 # None /\ eb.ema20[1] # 0 /\ eb.ema20[1] > 0
    THEN LET bias == Frac(Abs(entry_price - eb.ema20[1]), eb.ema20[1])
         IN  IF FracLt(bias, BIAS_GOOD) THEN 5
             ELSE IF FracLt(bias, BIAS_WARN) THEN 2 ELSE 0
    ELSE 2

\* The best and the worst price of the holding window day[ei : xi + 1].
Excursion(day, ei, xi, t) ==
    LET trade_bars == Slice(day, ei, xi + 1)
    IN  IF trade_bars # <<>>
        THEN IF sign(t) = 1
             THEN [best |-> MaxHigh(trade_bars), worst |-> MinLow(trade_bars)]
             ELSE [best |-> MinLow(trade_bars), worst |-> MaxHigh(trade_bars)]
        ELSE [best |-> t.exit_price, worst |-> t.entry_price]

\* Mutant: without a favourable excursion X1 passes whatever the P&L.
ScoreX1_flatAlwaysPass(ex, t) ==
    LET potential == Abs(ex.best - t.entry_price)
        actual == sign(t) * (t.exit_price - t.entry_price)
    IN  IF potential > 0
        THEN LET capture == Frac(actual, potential)
             IN  IF FracGeq(capture, CAPTURE_GOOD) THEN 10
                 ELSE IF FracGeq(capture, CAPTURE_WARN) THEN 5 ELSE 0
        ELSE 5

\* X1: realised P&L against the best favourable excursion.
ScoreX1(ex, t) ==
    LET potential == Abs(ex.best - t.entry_price)
        actual == sign(t) * (t.exit_price - t.entry_price)
    IN  IF potential > 0
        THEN LET capture == Frac(actual, potential)
             IN  IF FracGeq(capture, CAPTURE_GOOD) THEN 10
                 ELSE IF FracGeq(capture, CAPTURE_WARN) THEN 5 ELSE 0
        ELSE IF actual >= 0 THEN 5 ELSE 0

\* X2: how far the price ran on in the 3 bars after the exit.
ScoreX2(day, xi, t) ==
    LET post == Slice(day, xi + 1, xi + 4)
    IN  IF post # <<>>
        THEN LET missed == IF sign(t) = 1
                           THEN Max(0, MaxHigh(post) - t.exit_price)
                           ELSE Max(0, t.exit_price - MinLow(post))
                 missed_pct == Frac(missed, t.entry_price)
             IN  IF FracLt(missed_pct, POST_MISS_GOOD) THEN 5
                 ELSE IF FracLt(missed_pct, POST_MISS_WARN) THEN 2 ELSE 0
        ELSE 5

\* X3: holding on through a flat stretch.
ScoreX3(day, ei, xi, t) ==
    LET first == Slice(Slice(day, ei, xi + 1), 0, STAGNATION_BARS)
        stagnant_count ==
            Cardinality({ i \in 1..Len(first) :
                FracLt(Frac(Abs(first[i].close - t.entry_price), t.entry_price),
                       STAGNATION_PCT) })
        hold_bars == xi - ei
    IN  IF stagnant_count >= STAGNATION_BARS /\ hold_bars > STAGNATION_BARS * 2
        THEN 0 ELSE 5

\* R1: the maximum adverse excursion against the stop; the upper line is
\* STOP_LOSS_PCT * 1.5.
ScoreR1(ex, t) ==
    LET mae == Frac(Abs(ex.worst - t.entry_price), t.entry_price)
    IN  IF FracLeq(mae, STOP_LOSS_PCT) THEN 10
        ELSE IF FracLeq(mae, Frac(STOP_LOSS_PCT.num * 15, STOP_LOSS_PCT.den * 10))
            THEN 5 ELSE 0

\* R2: position size against the target share of the account; the bands are
\* 0.03 and 0.06.
ScoreR2(t) ==
    LET pos_pct == Frac(t.entry_price * t.quantity, ACCOUNT_TOTAL)
        diff == Frac(Abs(pos_pct.num * POSITION_PCT_TARGET.den
                           - POSITION_PCT_TARGET.num * pos_pct.den),
                     pos_pct.den * POSITION_PCT_TARGET.den)
    IN  IF FracLt(diff, Frac(3, 100)) THEN 5
        ELSE IF FracLt(diff, Frac(6, 100)) THEN 2 ELSE 0

\* T1: minutes from the order to the fill.
ScoreT1(t) ==
    LET d == time_diff_min(HmText(t.entry_order_time), HmText(t.entry_time))
    IN  IF d.raised THEN [raised |-> TRUE]
        ELSE LET lag == Abs(d.value)
             IN  [raised |-> FALSE,
                  value |-> IF lag <= LAG_GOOD_MIN THEN 5
                            ELSE IF lag <= LAG_WARN_MIN THEN 2 ELSE 0]

\* T2: minutes since the exit of the previous losing trade.  The gap of a
\* previous loss of the same date is asked of time_diff_min with the date in
\* the texts.
ScoreT2(t, prev) ==
    IF prev # None
    THEN LET gap == IF prev[1].date = t.date
                    THEN time_diff_min(DateHmText(prev[1].date, prev[1].exit_time),
                                       DateHmText(t.date, t.entry_time))
                    ELSE [raised |-> FALSE, value |-> 9999]
         IN  IF gap.raised THEN [raised |-> TRUE]
             ELSE IF prev[1].date # t.date THEN [raised |-> FALSE, value |-> 5]
             ELSE IF gap.value < REVENGE_MIN THEN [raised |-> FALSE, value |-> 0]
             ELSE [raised |-> FALSE, value |-> 5]
    ELSE [raised |-> FALSE, value |-> 5]

\* ---------------------------------------------------------------- scoring: score_trade

\* Score(...): the dataclass; notes holds the keys of the notes dict.
Score(s1, s2, s3, e1, e2, e3, x1, x2, x3, r1, r2, t1, t2, notes) ==
    [s1 |-> s1, s2 |-> s2, s3 |-> s3, e1 |-> e1, e2 |-> e2, e3 |-> e3,
     x1 |-> x1, x2 |-> x2, x3 |-> x3, r1 |-> r1, r2 |-> r2,
     t1 |-> t1, t2 |-> t2, notes |-> notes]

\* Score.structure, .entry, .exit, .risk, .sentiment and .total
structure(s) == s.s1 + s.s2 + s.s3
entry(s) == s.e1 + s.e2 + s.e3
exit(s) == s.x1 + s.x2 + s.x3
\* Mutant: the risk total also counts X3.
risk_withX3(s) == s.r1 + s.r2 + s.x3
risk(s) == s.r1 + s.r2
sentiment(s) == s.t1 + s.t2
total(s) == structure(s) + entry(s) + exit(s) + risk(s) + sentiment(s)

\* Score.grade(), asked of a total; the five labels are named by their band.
\* Mutant: the good band starts at 75.
grade_of_goodFrom75(t) ==
    IF t >= 85 THEN "excellent"
    ELSE IF t >= 75 THEN "good"
    ELSE IF t >= 55 THEN "moderate"
    ELSE IF t >= 40 THEN "needs_improvement"
    ELSE "poor"
grade_of(t) ==
    IF t >= 85 THEN "excellent"
    ELSE IF t >= 70 THEN "good"
    ELSE IF t >= 55 THEN "moderate"
    ELSE IF t >= 40 THEN "needs_improvement"
    ELSE "poor"
grade(s) == grade_of(total(s))

\* render(trade, sc): the numbers and the grade of the report header and of
\* the category rows; the texts around them are left out.
render(t, s) ==
    [ticker |-> t.ticker, date |-> t.date,
     total |-> total(s), grade |-> grade(s),
     structure |-> structure(s), entry |-> entry(s), exit |-> exit(s),
     risk |-> risk(s), sentiment |-> sentiment(s),
     cross_note |-> "cross_day" \in s.notes]

\* An exception leaving score_trade: there is no Score.
Raised(what) == [exception |-> what]

DimensionKeys ==
    {"S1", "S2", "S3", "E1", "E2", "E3", "X1", "X2", "X3", "R1", "R2", "T1", "T2"}

\* Mutant: the exit index is used as bar_at gives it.
exit_index_unclamped(day, ei, xi) == xi

\* cross_day = xi < ei; if cross_day: xi = len(day) - 1
exit_index(day, ei, xi) == IF xi < ei THEN Len(day) - 1 ELSE xi

\* Mutant: a trade without bars gets the neutral score of every dimension.
Unscored_neutral == Score(5, 5, 5, 5, 5, 2, 5, 5, 5, 5, 5, 5, 5, {"error"})

\* sc = Score() with the "error" note: the result for a date without bars.
Unscored == Score(0, 0, 0, 0, 0, 0, 0, 0, 0, 0, 0, 0, 0, {"error"})

\* score_trade(trade, records, qqq, prev_loss)
score_trade(t, recs, bench, prev) ==
    LET day == Get(recs, t.date)
    IN  IF day = <<>>
        THEN Unscored
        ELSE LET ei == bar_at(day, t.entry_time)
                 xi0 == bar_at(day, t.exit_time)
                 cross_day == xi0 < ei
                 xi == exit_index(day, ei, xi0)
                 eb == day[ei + 1]
                 sgn == sign(t)
                 ex == Excursion(day, ei, xi, t)
                 t1 == ScoreT1(t)
                 t2 == ScoreT2(t, prev)
             IN  IF t1.raised \/ t2.raised THEN Raised("ValueError")
                 ELSE Score(ScoreS1(eb, sgn),
                            ScoreS2(day, Get(bench, t.date), ei, t.entry_time, sgn),
                            ScoreS3(day, ei),
                            ScoreE1(day, ei, eb),
                            ScoreE2(eb, t.entry_price, sgn),
                            ScoreE3(eb, t.entry_price),
                            ScoreX1(ex, t),
                            ScoreX2(day, xi, t),
                            ScoreX3(day, ei, xi, t),
                            ScoreR1(ex, t),
                            ScoreR2(t),
                            t1.value, t2.value,
                            DimensionKeys
                              \cup (IF cross_day THEN {"cross_day"} ELSE {}))

\* ---------------------------------------------------------------- scoring: inputs

\* The minute bars of one day: bar i is the minute OpenMinute + i - 1, in one
\* of four shapes: a flat bar without EMA values, a rising bar above rising
\* averages, a falling bar below falling averages, a rising bar above EMA10
\* with EMA10 below EMA20.
MaxBars == 3
OpenMinute == 570
BarShapes ==
    { [open |-> 100, high |-> 100, low |-> 100, close |-> 100, volume |-> 100,
       ema10 |-> None, ema20 |-> None],
      [open |-> 100, high |-> 104, low |-> 99, close |-> 103, volume |-> 200,
       ema10 |-> Some(101), ema20 |-> Some(100)],
      [open |-> 100, high |-> 101, low |-> 95, close |-> 96, volume |-> 50,
       ema10 |-> Some(99), ema20 |-> Some(100)],
      [open |-> 100, high |-> 103, low |-> 97, close |-> 102, volume |-> 130,
       ema10 |-> Some(101), ema20 |-> Some(102)] }
BarOf(i, sh) ==
    Bar(OpenMinute + i - 1, sh.open, sh.high, sh.low, sh.close, sh.volume,
        sh.ema10, sh.ema20)
DayBars ==
    { [i \in 1..Len(shs) |-> BarOf(i, shs[i])] : shs \in SeqsUpTo(BarShapes, MaxBars) }

\* A dict from dates to bar lists; every scored trade is of date ScoreDate.
ScoreDate == 1
EmptyDict == [d \in {} |-> <<>>]
BarStores == {EmptyDict} \cup { [d \in {ScoreDate} |-> bars] : bars \in DayBars }
BenchStores ==
    { EmptyDict,
      [d \in {ScoreDate} |-> <<>>],
      [d \in {ScoreDate} |->
          << Bar(OpenMinute, 100, 101, 100, 101, 100, None, None),
             Bar(OpenMinute + 1, 101, 102, 100, 101, 100, None, None) >>] }

\* The trades scored: both directions, an entry at the first or at the third
\* minute at a price inside the bars' range or below every bar, an exit
\* before the open, inside or after the bars, and an order 0, 4 or 6 minutes
\* before the fill.
ScoredTrades ==
    { Trade("AAA", ScoreDate, d, et, ep, et - lag, xt, xp, 100) :
        d \in {"long", "short"}, et \in {570, 572}, ep \in {96, 100},
        lag \in {0, 4, 6}, xt \in {565, 571, 575}, xp \in {98, 101, 103} }

\* prev_loss: none, or a losing trade of the same or of another date.
PrevLosses ==
    {None} \cup
    { Some(t) : t \in
        { u \in { Trade("BBB", pd, "long", 545, 100, 545, px, 90, 100) :
                    pd \in {ScoreDate - 1, ScoreDate}, px \in {550, 562} } :
            pnl_pct(u).num < 0 } }

\* The Scores handed to render: the values score_trade gives a sub-score
\* (0, 5, 10 out of ten; 0, 2, 5 out of five), with E2, X1 and R1 moving
\* together and X3, R2, T1 and T2 moving together.
GradedScores ==
    { Score(s1, s2, s3, e1, v, e3, v, x2, w, v, w, w, w, DimensionKeys) :
        s1 \in {0, 5, 10}, s2 \in {0, 5, 10}, s3 \in {0, 5, 10}, e1 \in {0, 5, 10},
        v \in {0, 5, 10}, e3 \in {0, 2, 5}, x2 \in {0, 2, 5}, w \in {0, 5} }

\* ---------------------------------------------------------------- the batch run

\* available: the tickers of the trades that have a .records file; dir maps
\* each ticker with a file to what load_records reads from it.
available(ts, dir) == { ts[i].ticker : i \in 1..Len(ts) } \cap DOMAIN dir

\* valid_trades: the trades of the available tickers, in the order of ts.
valid_trades(ts, dir) == SelectSeq(ts, LAMBDA t : t.ticker \in available(ts, dir))

\* records_cache: load_records of every available ticker.
records_cache(ts, dir) == [ticker \in available(ts, dir) |-> dir[ticker]]

\* Mutant: a breakeven trade also becomes the previous loss.
next_prev_loss_orFlat(t, prev) ==
    IF pnl_pct(t).num * pnl_pct(t).den <= 0 THEN Some(t) ELSE prev

\* if trade.pnl_pct < 0: prev_loss = trade
next_prev_loss(t, prev) ==
    IF FracLt(pnl_pct(t), Frac(0, 1)) THEN Some(t) ELSE prev

\* The round trips of the batch run: a long trade of one share bought at 10
\* at the open or ten minutes later on one of two dates, and sold five
\* minutes later at a loss, at the same price or at a gain.
MaxBatchTrips == 3
BatchTrips ==
    { << [code |-> c, direction |-> "buy", filled |-> <<1, 10>>,
          fill_time |-> [date |-> d, hm |-> hm, ss |-> 0],
          order_time |-> [date |-> d, hm |-> hm, ss |-> 0]],
         [code |-> c, direction |-> "sell", filled |-> <<1, xp>>,
          fill_time |-> [date |-> d, hm |-> hm + 5, ss |-> 0],
          order_time |-> [date |-> d, hm |-> hm + 5, ss |-> 0]] >> :
        c \in Tickers, d \in {1, 2}, hm \in {570, 580}, xp \in {9, 10, 11} }

\* The data directory: any of the tickers may have a file; a file holds one
\* flat bar for each of the two dates.
BatchBars == << Bar(570, 10, 10, 10, 10, 100, None, None) >>
DataDirs ==
    { [ticker \in S |-> [d \in {1, 2} |-> BatchBars]] : S \in SUBSET Tickers }

\* ---------------------------------------------------------------- summary.py: pairing

\* summary.py has its own copy of the pairing code.

\* datetime.strptime(s.split(" (")[0].strip(), "%Y/%m/%d %H:%M:%S")
summary_parse_dt(s) == <<s.date, s.hm, s.ss>>

\* qty, price = s.split("@")
summary_parse_filled(s) == [qty |-> s[1], price |-> s[2]]

\* Trade(...): the dataclass of summary.py; the order time is its last field.
summary_Trade(ticker, date, direction, entry_time, entry_price, exit_time, exit_price, quantity, order_time) ==
    [ticker |-> ticker, date |-> date, direction |-> direction,
     entry_time |-> entry_time, entry_price |-> entry_price,
     exit_time |-> exit_time, exit_price |-> exit_price,
     quantity |-> quantity, order_time |-> order_time]

\* The key of grp.sort: the fill datetime.
summary_OrderKeyLeq(a, b) ==
    DtLeq(summary_parse_dt(a.fill_time), summary_parse_dt(b.fill_time))

summary_InsertOrder(s, x) ==
    LET later == { i \in 1..Len(s) : ~summary_OrderKeyLeq(s[i], x) }
        p == IF later = {} THEN Len(s) + 1
             ELSE CHOOSE i \in later : \A j \in later : i <= j
    IN  SubSeq(s, 1, p - 1) \o <<x>> \o SubSeq(s, p, Len(s))

RECURSIVE summary_SortOrders(_)
\* grp.sort(key=lambda x: parse_dt(x["成交时间"]))
summary_SortOrders(s) ==
    IF s = <<>> THEN <<>>
    ELSE summary_InsertOrder(summary_SortOrders(SubSeq(s, 1, Len(s) - 1)), s[Len(s)])

\* The key of sorted(trades): (t.date, t.entry_time).
summary_TradeKeyLeq(a, b) ==
    \/ a.date < b.date
    \/ a.date = b.date /\ a.entry_time <= b.entry_time

summary_InsertTrade(s, x) ==
    LET later == { i \in 1..Len(s) : ~summary_TradeKeyLeq(s[i], x) }
        p == IF later = {} THEN Len(s) + 1
             ELSE CHOOSE i \in later : \A j \in later : i <= j
    IN  SubSeq(s, 1, p - 1) \o <<x>> \o SubSeq(s, p, Len(s))

RECURSIVE summary_SortTrades(_)
\* sorted(trades, key=lambda t: (t.date, t.entry_time))
summary_SortTrades(s) ==
    IF s = <<>> THEN <<>>
    ELSE summary_InsertTrade(summary_SortTrades(SubSeq(s, 1, Len(s) - 1)), s[Len(s)])

RECURSIVE summary_TickerKeys(_)
\* The keys of by_ticker, in insertion order.
summary_TickerKeys(os) ==
    IF os = <<>> THEN <<>>
    ELSE LET ks == summary_TickerKeys(SubSeq(os, 1, Len(os) - 1))
             c == os[Len(os)].code
         IN  IF \E i \in 1..Len(ks) : ks[i] = c THEN ks ELSE Append(ks, c)

\* by_ticker[ticker]: the rows of one code, in file order.
summary_by_ticker(os, ticker) == SelectSeq(os, LAMBDA o : o.code = ticker)

\* The locals pos and entry of the loop over one ticker's rows, with the
\* trades list.
summary_State(pos, open_entry, ts) == [pos |-> pos, entry |-> open_entry, trades |-> ts]

\* Mutant: a sell while long is paired only when it covers the whole entry.
summary_step_fullCloseOnly(st, ticker, o) ==
    LET f == summary_parse_filled(o.filled)
        fill_dt == summary_parse_dt(o.fill_time)
        d == o.direction
    IN  IF d = "buy" /\ st.pos = 0 THEN summary_State(f.qty, Some(o), st.trades)
        ELSE IF d = "short" /\ st.pos = 0 THEN summary_State(-f.qty, Some(o), st.trades)
        ELSE IF d = "sell" /\ st.pos > 0 /\ st.entry # None /\ f.qty >= st.pos
        THEN LET e == summary_parse_filled(st.entry[1].filled)
                 edt == summary_parse_dt(st.entry[1].fill_time)
             IN  summary_State(0, None,
                    Append(st.trades,
                        summary_Trade(ticker, strftime_date(edt), "long",
                            strftime_hm(edt), e.price,
                            strftime_hm(fill_dt), f.price,
                            Min(f.qty, e.qty),
                            strftime_hm(summary_parse_dt(st.entry[1].order_time)))))
        ELSE IF d = "buy" /\ st.pos < 0 /\ st.entry # None
        THEN LET e == summary_parse_filled(st.entry[1].filled)
                 edt == summary_parse_dt(st.entry[1].fill_time)
             IN  summary_State(0, None,
                    Append(st.trades,
                        summary_Trade(ticker, strftime_date(edt), "short",
                            strftime_hm(edt), e.price,
                            strftime_hm(fill_dt), f.price,
                            Min(f.qty, Abs(st.pos)),
                            strftime_hm(summary_parse_dt(st.entry[1].order_time)))))
        ELSE st

\* One iteration of "for o in grp": the if/elif chain.
summary_step(st, ticker, o) ==
    LET f == summary_parse_filled(o.filled)
        fill_dt == summary_parse_dt(o.fill_time)
        d == o.direction
    IN  IF d = "buy" /\ st.pos = 0 THEN summary_State(f.qty, Some(o), st.trades)
        ELSE IF d = "short" /\ st.pos = 0 THEN summary_State(-f.qty, Some(o), st.trades)
        ELSE IF d = "sell" /\ st.pos > 0 /\ st.entry # None
        THEN LET e == summary_parse_filled(st.entry[1].filled)
                 edt == summary_parse_dt(st.entry[1].fill_time)
             IN  summary_State(0, None,
                    Append(st.trades,
                        summary_Trade(ticker, strftime_date(edt), "long",
                            strftime_hm(edt), e.price,
                            strftime_hm(fill_dt), f.price,
                            Min(f.qty, e.qty),
                            strftime_hm(summary_parse_dt(st.entry[1].order_time)))))
        ELSE IF d = "buy" /\ st.pos < 0 /\ st.entry # None
        THEN LET e == summary_parse_filled(st.entry[1].filled)
                 edt == summary_parse_dt(st.entry[1].fill_time)
             IN  summary_State(0, None,
                    Append(st.trades,
                        summary_Trade(ticker, strftime_date(edt), "short",
                            strftime_hm(edt), e.price,
                            strftime_hm(fill_dt), f.price,
                            Min(f.qty, Abs(st.pos)),
                            strftime_hm(summary_parse_dt(st.entry[1].order_time)))))
        ELSE st

RECURSIVE summary_LoopState(_, _, _, _)
\* The state after the first k iterations over the sorted rows grp.
summary_LoopState(st0, ticker, grp, k) ==
    IF k = 0 THEN st0
    ELSE summary_step(summary_LoopState(st0, ticker, grp, k - 1), ticker, grp[k])

\* The body of "for ticker, grp in by_ticker.items()": pos = 0 and
\* entry = None, then the loop over the sorted rows.
summary_PairTicker(st, os, ticker) ==
    LET grp == summary_SortOrders(summary_by_ticker(os, ticker))
    IN  summary_LoopState(summary_State(0, None, st.trades), ticker, grp, Len(grp))

RECURSIVE summary_TickersState(_, _, _)
\* The state after the loop bodies of the first n tickers.
summary_TickersState(os, ks, n) ==
    IF n = 0 THEN summary_State(0, None, <<>>)
    ELSE summary_PairTicker(summary_TickersState(os, ks, n - 1), os, ks[n])

\* summary.pair_trades(orders)
summary_pair_trades(os) ==
    LET ks == summary_TickerKeys(os)
    IN  summary_SortTrades(summary_TickersState(os, ks, Len(ks)).trades)

\* ---------------------------------------------------------------- backend/api.py: POST /api/update

\* The POST /api/update requests in flight at once: each is run by a thread
\* of the server's pool.
MaxRequests == 3
Requests == 1..MaxRequests

\* _update_lock = threading.Lock(): None when free, else the request holding
\* it.  _update_status = {"running": False, "last_run": None, "error": None}
UpdateStatus(running, last_run, error) ==
    [running |-> running, last_run |-> last_run, error |-> error]

\* A request before it reaches "with _update_lock", with what it later reads
\* of _update_status["running"] and what it returns.
Request(at, saw, response) == [at |-> at, saw |-> saw, response |-> response]

\* The module as imported: the lock free, no job running, no request yet.
FacadeIdle ==
    /\ update_lock = None
    /\ update_status = UpdateStatus(FALSE, None, None)
    /\ requests = [r \in Requests |-> Request("idle", None, None)]
    /\ jobs = [r \in Requests |-> "none"]

\* Mutant: the block is entered without taking the lock.
LockFree_always == TRUE

\* threading.Lock: acquire blocks while another thread holds the lock.
LockFree == update_lock = None

\* ---------------------------------------------------------------- fetch_data.py: RateLimiter

\* Times are in tenths of a second.  The 60 seconds of the window, the 0.1
\* seconds added to a wait, and the limit of fetch_chunks' limiter.
WINDOW == 600
MARGIN == 1
RATE_LIMIT_PER_MIN == 5

\* RateLimiter(RATE_LIMIT_PER_MIN): no timestamps; the clock is
\* time.monotonic(), recorded is every timestamp throttle has appended.
LimiterIdle ==
    /\ clock = 0
    /\ timestamps = <<>>
    /\ limiter_pc = "idle"
    /\ wait = 0
    /\ recorded = <<>>

\* Mutant: a call at the limit sleeps for the margin alone.
throttle_wait_marginOnly(now, oldest) == MARGIN

\* wait = 60 - (now - self._timestamps[0]) + 0.1
throttle_wait(now, oldest) == WINDOW - (now - oldest) + MARGIN

\* [t for t in self._timestamps if now - t < 60]
recent(ts, now) == SelectSeq(ts, LAMBDA t : now - t < WINDOW)

\* The calls of throttle in one run, the time a download and the loop
\* around it take (nothing, half a minute, a minute), and the time between
\* two readings of the clock inside throttle.
MaxCalls == 7
Gaps == {0, 300, 600}
Lateness == {0, 1}

\* ---------------------------------------------------------------- the other programs

\* The state of analyze.py, of the REST facade and of the fetcher's rate
\* limiter.
analysis ==
    <<orders, trades, pc, trade, records, qqq, prev_loss, sc, data_dir, results,
      rendered>>
facade == <<update_lock, update_status, requests, jobs>>
limiter == <<clock, timestamps, limiter_pc, wait, recorded>>

\* The state of the programs other than analyze.py, and that state before
\* any of them has run.
others == <<summary_trades, facade, limiter>>
OthersIdle ==
    /\ summary_trades = None
    /\ FacadeIdle
    /\ LimiterIdle

\* ---------------------------------------------------------------- behaviour

\* load_orders has read the rows that pass its filters.
\* The scoring half of the state while only pairing is under study.
NothingToScore ==
    /\ trade = None
    /\ records = EmptyDict
    /\ qqq = EmptyDict
    /\ prev_loss = None
    /\ sc = None
    /\ data_dir = EmptyDict
    /\ results = <<>>
    /\ rendered = None

Init ==
    /\ orders \in SeqsUpTo(Orders, MaxOrders)
    /\ trades = <<>>
    /\ pc = "loaded"
    /\ NothingToScore
    /\ OthersIdle

\* all_trades = pair_trades(all_orders)
PairTrades ==
    /\ pc = "loaded"
    /\ trades' = pair_trades(orders)
    /\ pc' = "paired"
    /\ UNCHANGED <<orders, trade, records, qqq, prev_loss, sc, data_dir, results, rendered>>
    /\ UNCHANGED others

Next == PairTrades

Spec == Init /\ [][Next]_vars

\* The rows of two tickers, long enough for two round trips.
InitMerge ==
    /\ orders \in SeqsUpTo(MergeOrders, MaxMergeOrders)
    /\ trades = <<>>
    /\ pc = "loaded"
    /\ NothingToScore
    /\ OthersIdle

SpecMerge == InitMerge /\ [][Next]_vars

\* Inputs made of whole round trips, written trip after trip.
InitTrips ==
    /\ orders \in { Flatten(ts) : ts \in SeqsUpTo(Trips, MaxTrips) }
    /\ trades = <<>>
    /\ pc = "loaded"
    /\ NothingToScore
    /\ OthersIdle

SpecTrips == InitTrips /\ [][Next]_vars

\* One call of score_trade on a trade, the bars of its ticker, the benchmark
\* bars and a previous loss.
InitScore ==
    /\ orders = <<>>
    /\ trades = <<>>
    /\ pc = "to_score"
    /\ trade \in ScoredTrades
    /\ records \in BarStores
    /\ qqq \in BenchStores
    /\ prev_loss \in PrevLosses
    /\ sc = None
    /\ data_dir = EmptyDict
    /\ results = <<>>
    /\ rendered = None
    /\ OthersIdle

\* sc = score_trade(trade, records_cache[trade.ticker], qqq, prev_loss)
ScoreTrade ==
    /\ pc = "to_score"
    /\ sc' = score_trade(trade, records, qqq, prev_loss)
    /\ pc' = "scored"
    /\ UNCHANGED <<orders, trades, trade, records, qqq, prev_loss, data_dir, results, rendered>>
    /\ UNCHANGED others

NextScore == ScoreTrade

SpecScore == InitScore /\ [][NextScore]_vars

\* The batch run: the fills are paired, then the trades of the tickers that
\* have a .records file are scored one after the other.
InitBatch ==
    /\ orders \in { Flatten(ts) : ts \in SeqsUpTo(BatchTrips, MaxBatchTrips) }
    /\ trades = <<>>
    /\ pc = "loaded"
    /\ trade = None
    /\ records = EmptyDict
    /\ qqq = EmptyDict
    /\ prev_loss = None
    /\ sc = None
    /\ data_dir \in DataDirs
    /\ results = <<>>
    /\ rendered = None
    /\ OthersIdle

\* One turn of "for trade in valid_trades": the call of score_trade, the
\* append to results and the update of prev_loss; an exception of score_trade
\* leaves main and ends the run.
ScoreNext ==
    /\ pc = "paired"
    /\ Len(results) < Len(valid_trades(trades, data_dir))
    /\ LET t == valid_trades(trades, data_dir)[Len(results) + 1]
           recs == records_cache(trades, data_dir)[t.ticker]
           r == score_trade(t, recs, qqq, prev_loss)
       IN  /\ trade' = t
           /\ records' = recs
           /\ sc' = r
           /\ IF "exception" \in DOMAIN r
              THEN /\ pc' = "crashed"
                   /\ UNCHANGED <<results, prev_loss>>
              ELSE /\ pc' = pc
                   /\ results' = Append(results, <<t, r>>)
                   /\ prev_loss' = next_prev_loss(t, prev_loss)
    /\ UNCHANGED <<orders, trades, qqq, data_dir, rendered>>
    /\ UNCHANGED others

NextBatch == PairTrades \/ ScoreNext

SpecBatch == InitBatch /\ [][NextBatch]_vars

\* The report of one scored trade: render is handed a Score.
InitGrade ==
    /\ orders = <<>>
    /\ trades = <<>>
    /\ pc = "scored"
    /\ trade \in { t \in ScoredTrades :
                      /\ t.entry_order_time = 570 /\ t.entry_price = 100
                      /\ t.exit_time = 571 /\ t.exit_price = 103 }
    /\ records = EmptyDict
    /\ qqq = EmptyDict
    /\ prev_loss = None
    /\ sc \in GradedScores
    /\ data_dir = EmptyDict
    /\ results = <<>>
    /\ rendered = None
    /\ OthersIdle

\* print(render(trade, sc))
Render ==
    /\ pc = "scored"
    /\ rendered' = Some(render(trade, sc))
    /\ pc' = "rendered"
    /\ UNCHANGED <<orders, trades, trade, records, qqq, prev_loss, sc, data_dir, results>>
    /\ UNCHANGED others

NextGrade == Render

SpecGrade == InitGrade /\ [][NextGrade]_vars

\* ---------------------------------------------------------------- the loop, step by step

\* The tickers of the input, in the order pair_trades takes them.
Keys == TickerKeys(orders)

\* The rows of the n-th ticker as the loop takes them.
Sorted(n) == SortOrders(by_ticker(orders, Keys[n]))

\* The iterations of the inner loop: <<n, k>> is the k-th row of the n-th ticker.
Steps == { <<n, k>> \in (1..Len(Keys)) \X (1..Len(orders)) : k <= Len(Sorted(n)) }

\* The locals and the trades list before and after iteration <<n, k>>.
Pre(n, k) ==
    LoopState(TickerInit(TickersState(orders, Keys, n - 1)), Keys[n], Sorted(n), k - 1)
Post(n, k) ==
    LoopState(TickerInit(TickersState(orders, Keys, n - 1)), Keys[n], Sorted(n), k)

\* The rows with their place in the input, and the place in the input of the
\* k-th row the loop takes for the n-th ticker.
Tagged ==
    [i \in 1..Len(orders) |->
        [code |-> orders[i].code, direction |-> orders[i].direction,
         filled |-> orders[i].filled, fill_time |-> orders[i].fill_time,
         order_time |-> orders[i].order_time, idx |-> i]]
InputIndex(n, k) == SortOrders(by_ticker(Tagged, Keys[n]))[k].idx

\* The trades one ticker's rows give, in the order they are emitted.
TickerTrades(os, ticker) == PairTicker(PairState(0, None, <<>>), os, ticker).trades

\* The list without its i-th element.
RemoveAt(s, i) == SubSeq(s, 1, i - 1) \o SubSeq(s, i + 1, Len(s))

\* The Trade that closing the open entry e with the fill o must give.
ExpectedTrade(ticker, direction, e, o) ==
    [ticker |-> ticker, date |-> e.fill_time.date, direction |-> direction,
     entry_time |-> e.fill_time.hm, entry_price |-> e.filled[2],
     entry_order_time |-> e.order_time.hm,
     exit_time |-> o.fill_time.hm, exit_price |-> o.filled[2],
     quantity |-> IF e.filled[1] <= o.filled[1] THEN e.filled[1] ELSE o.filled[1]]

ClosesLong(pre, o) == pre.position > 0 /\ o.direction = "sell"
ClosesShort(pre, o) == pre.position < 0 /\ o.direction = "buy"
OpensLong(pre, o) == pre.position = 0 /\ o.direction = "buy"
OpensShort(pre, o) == pre.position = 0 /\ o.direction = "short"
NoTransition(pre, o) ==
    ~(ClosesLong(pre, o) \/ ClosesShort(pre, o) \/ OpensLong(pre, o) \/ OpensShort(pre, o))

\* ---------------------------------------------------------------- claims

\* C1: a sell while long (a buy while short) emits exactly one Trade, long
\* (short), with entry date/time/price/order time of the stored open entry,
\* exit time/price of the incoming fill and quantity the smaller of the two
\* filled quantities, and resets the state to position 0, no open entry; a
\* buy followed by a sell of one ticker gives exactly that one long Trade.
C1_CloseEmitsOneTrade ==
    pc = "paired" =>
        /\ \A st \in Steps :
            LET n == st[1]
                k == st[2]
                o == Sorted(n)[k]
                pre == Pre(n, k)
                post == Post(n, k)
            IN  /\ ClosesLong(pre, o) =>
                    /\ pre.entry # None
                    /\ post.trades =
                         Append(pre.trades,
                                ExpectedTrade(Keys[n], "long", pre.entry[1], o))
                    /\ post.position = 0
                    /\ post.entry = None
                /\ ClosesShort(pre, o) =>
                    /\ pre.entry # None
                    /\ post.trades =
                         Append(pre.trades,
                                ExpectedTrade(Keys[n], "short", pre.entry[1], o))
                    /\ post.position = 0
                    /\ post.entry = None
        /\ ( /\ Len(orders) = 2
             /\ orders[1].code = orders[2].code
             /\ orders[1].direction = "buy"
             /\ orders[2].direction = "sell"
             /\ DtLeq(parse_dt(orders[1].fill_time), parse_dt(orders[2].fill_time)) )
           => trades = << ExpectedTrade(orders[1].code, "long", orders[1], orders[2]) >>

\* A long position of 2 has been closed by a sell of 1, and the long Trade
\* of quantity 1 is in the result.
C1_Witness ==
    /\ pc = "paired"
    /\ \E st \in Steps :
         /\ ClosesLong(Pre(st[1], st[2]), Sorted(st[1])[st[2]])
         /\ Sorted(st[1])[st[2]].filled[1] < Pre(st[1], st[2]).position
    /\ \E i \in 1..Len(trades) : trades[i].direction = "long" /\ trades[i].quantity = 1

\* C2: every ticker starts flat with no open entry; a buy of q while flat
\* makes position +q, a short-sell of q while flat makes position -q, the
\* fill becomes the open entry, and neither emits a Trade.
C2_OpenFromFlat ==
    pc = "paired" =>
        /\ \A n \in 1..Len(Keys) :
            /\ Pre(n, 1).position = 0
            /\ Pre(n, 1).entry = None
        /\ \A st \in Steps :
            LET n == st[1]
                k == st[2]
                o == Sorted(n)[k]
                pre == Pre(n, k)
                post == Post(n, k)
            IN  /\ OpensLong(pre, o) =>
                    /\ post.position = o.filled[1]
                    /\ post.entry = <<o>>
                    /\ post.trades = pre.trades
                /\ OpensShort(pre, o) =>
                    /\ post.position = -o.filled[1]
                    /\ post.entry = <<o>>
                    /\ post.trades = pre.trades

\* A short-sell of 2 opened a short position on a flat ticker, after another
\* ticker's loop had left a position open.
C2_Witness ==
    /\ pc = "paired"
    /\ \E st \in Steps :
         /\ st[1] = 2
         /\ TickersState(orders, Keys, 1).position # 0
         /\ OpensShort(Pre(st[1], st[2]), Sorted(st[1])[st[2]])
         /\ Post(st[1], st[2]).position = -2

\* C3: a fill that fits none of the four transitions changes neither the
\* position nor the open entry, emits no Trade, and the trades of its
\* ticker's stream are those of the input without that fill.
C3_OtherFillsIgnored ==
    pc = "paired" =>
        \A st \in Steps :
            LET n == st[1]
                k == st[2]
                o == Sorted(n)[k]
                i == InputIndex(n, k)
                pre == Pre(n, k)
            IN  NoTransition(pre, o) =>
                    /\ Post(n, k) = pre
                    /\ orders[i] = o
                    /\ TickerTrades(RemoveAt(orders, i), o.code)
                         = TickerTrades(orders, o.code)

\* A second buy while long was ignored and the position was closed after it.
C3_Witness ==
    /\ pc = "paired"
    /\ \E st \in Steps :
         /\ NoTransition(Pre(st[1], st[2]), Sorted(st[1])[st[2]])
         /\ Pre(st[1], st[2]).position > 0
         /\ Sorted(st[1])[st[2]].direction = "buy"
    /\ Len(trades) = 1

C9_PnlSign ==
    pc = "paired" =>
        \A i \in 1..Len(trades) :
            LET t == trades[i]
            IN  /\ t.direction = "long" =>
                    /\ (FracSgn(pnl_pct(t)) = 1) <=> (t.exit_price > t.entry_price)
                    /\ (pnl_usd(t) > 0) <=> (t.exit_price > t.entry_price)
                /\ t.direction = "short" =>
                    /\ (FracSgn(pnl_pct(t)) = 1) <=> (t.exit_price < t.entry_price)
                    /\ (pnl_usd(t) > 0) <=> (t.exit_price < t.entry_price)
                /\ FracSgn(pnl_pct(t)) = Sgn(pnl_usd(t))
                /\ pnl_pct(t).num * t.quantity = pnl_usd(t)
                /\ pnl_pct(t).den = t.entry_price

\* A short sold at 11 and covered at 10 is a short Trade with positive P&L.
C9_Witness ==
    /\ pc = "paired"
    /\ \E i \in 1..Len(trades) :
         /\ trades[i].direction = "short"
         /\ trades[i].entry_price = 11
         /\ trades[i].exit_price = 10
         /\ pnl_usd(trades[i]) > 0
         /\ FracSgn(pnl_pct(trades[i])) = 1

\* ---------------------------------------------------------------- order of processing and of the result

\* The input rearranged by the permutation p of its indices.
Permuted(p) == [i \in 1..Len(orders) |-> orders[p[i]]]

\* p keeps the order of the rows of one ticker that fill at the same time.
KeepsTieOrder(p) ==
    \A a, b \in 1..Len(orders) :
        ( /\ a < b
          /\ orders[p[a]].code = orders[p[b]].code
          /\ orders[p[a]].fill_time = orders[p[b]].fill_time ) => p[a] < p[b]

\* The trades of one ticker in a list of trades.
OfTicker(ts, ticker) == SelectSeq(ts, LAMBDA t : t.ticker = ticker)

\* A list of trades is in (date, entry time) order.
InKeyOrder(ts) ==
    \A i \in 1..(Len(ts) - 1) :
        \/ ts[i].date < ts[i + 1].date
        \/ ts[i].date = ts[i + 1].date /\ ts[i].entry_time <= ts[i + 1].entry_time

\* C5: each ticker's rows are taken in non-decreasing fill-time order
\* whatever the input order, rows of equal fill time in input order; so a
\* ticker's trades are the same for every rearrangement of the input that
\* keeps the order of its equal-time rows.
C5_SortedByFillTime ==
    pc = "paired" =>
        /\ \A n \in 1..Len(Keys) :
            LET S == Sorted(n)
                B == by_ticker(orders, Keys[n])
            IN  /\ Len(S) = Len(B)
                /\ \A j, k \in 1..Len(S) :
                     j < k =>
                        \/ S[j].fill_time.date < S[k].fill_time.date
                        \/ /\ S[j].fill_time.date = S[k].fill_time.date
                           /\ S[j].fill_time.hm < S[k].fill_time.hm
                        \/ /\ S[j].fill_time.date = S[k].fill_time.date
                           /\ S[j].fill_time.hm = S[k].fill_time.hm
                           /\ S[j].fill_time.ss <= S[k].fill_time.ss
                /\ \A j \in 1..Len(B) :
                     SelectSeq(S, LAMBDA o : o.fill_time = B[j].fill_time)
                       = SelectSeq(B, LAMBDA o : o.fill_time = B[j].fill_time)
        /\ \A p \in Permutations(1..Len(orders)) :
             KeepsTieOrder(p) =>
                \A c \in Tickers :
                    OfTicker(pair_trades(Permuted(p)), c) = OfTicker(trades, c)

\* A ticker's rows came later-first in the input, two of them at the same
\* time, and gave a trade.
C5_Witness ==
    /\ pc = "paired"
    /\ Len(trades) = 1
    /\ \E n \in 1..Len(Keys) :
         /\ Sorted(n) # by_ticker(orders, Keys[n])
         /\ \E j, k \in 1..Len(Sorted(n)) :
              j < k /\ Sorted(n)[j].fill_time = Sorted(n)[k].fill_time

\* p keeps the order in which the tickers first appear.
KeepsTickerOrder(p) == TickerKeys(Permuted(p)) = Keys

\* C6 as claimed: the result is in (date, entry time) order and is the same
\* list for every arrangement of the same rows.
C6_SameForEveryOrder ==
    pc = "paired" =>
        /\ InKeyOrder(trades)
        /\ \A p \in Permutations(1..Len(orders)) : pair_trades(Permuted(p)) = trades

\* C6 amended: the result holds the trades of all tickers, in (date, entry
\* time) order, and is the same list for every arrangement of the same rows
\* that keeps the order in which the tickers first appear and the order of
\* each ticker's equal-time rows.
C6_MergedInKeyOrder ==
    pc = "paired" =>
        /\ InKeyOrder(trades)
        /\ \A c \in Tickers :
             /\ Len(OfTicker(trades, c)) = Len(TickerTrades(orders, c))
             /\ \A i \in 1..Len(TickerTrades(orders, c)) :
                  \E j \in 1..Len(trades) : trades[j] = TickerTrades(orders, c)[i]
        /\ \A p \in Permutations(1..Len(orders)) :
             (KeepsTieOrder(p) /\ KeepsTickerOrder(p)) =>
                pair_trades(Permuted(p)) = trades

\* The ticker that comes first in the input entered on the later day: the
\* result has the other ticker's trade first.
C6_Witness ==
    /\ pc = "paired"
    /\ Len(trades) = 2
    /\ trades[1].ticker # trades[2].ticker
    /\ trades[1].ticker = Keys[2]
    /\ trades[1].date < trades[2].date
    /\ trades[1].entry_time > trades[2].entry_time

\* C7: the trades of a ticker in the result are those pair_trades gives for
\* that ticker's rows alone, whatever rows of other tickers lie between them.
C7_TickersIndependent ==
    pc = "paired" =>
        \A c \in Tickers : OfTicker(trades, c) = pair_trades(by_ticker(orders, c))

\* The first ticker's loop ended with a position open, the second ticker's
\* rows lie between the first one's, and the second ticker has a trade.
C7_Witness ==
    /\ pc = "paired"
    /\ Len(Keys) = 2
    /\ Len(orders) = 4
    /\ orders[1].code # orders[2].code
    /\ orders[2].code # orders[3].code
    /\ TickersState(orders, Keys, 1).position # 0
    /\ Len(OfTicker(trades, Keys[2])) = 1

\* ---------------------------------------------------------------- round trip through the trades

\* The opening and the closing row rebuilt from a Trade.
OpeningRow(t) ==
    [code |-> t.ticker,
     direction |-> IF t.direction = "long" THEN "buy" ELSE "short",
     filled |-> <<t.quantity, t.entry_price>>,
     fill_time |-> [date |-> t.date, hm |-> t.entry_time, ss |-> 0],
     order_time |-> [date |-> t.date, hm |-> t.entry_order_time, ss |-> 0]]
ClosingRow(t) ==
    [code |-> t.ticker,
     direction |-> IF t.direction = "long" THEN "sell" ELSE "buy",
     filled |-> <<t.quantity, t.exit_price>>,
     fill_time |-> [date |-> t.date, hm |-> t.exit_time, ss |-> 0],
     order_time |-> [date |-> t.date, hm |-> t.exit_time, ss |-> 0]]

RECURSIVE Rebuilt(_)
\* The rows rebuilt from a list of trades, trade after trade.
Rebuilt(ts) ==
    IF ts = <<>> THEN <<>>
    ELSE Rebuilt(SubSeq(ts, 1, Len(ts) - 1))
            \o << OpeningRow(ts[Len(ts)]), ClosingRow(ts[Len(ts)]) >>

\* Every row of the input opens a position on a flat ticker or closes the
\* open one, and every ticker ends flat.
WellFormed ==
    /\ \A st \in Steps : ~NoTransition(Pre(st[1], st[2]), Sorted(st[1])[st[2]])
    /\ \A n \in 1..Len(Keys) : TickersState(orders, Keys, n).position = 0

\* C8 as claimed: the trades of a well-formed input, rebuilt as rows and
\* paired again, give the same list of trades.
C8_Idempotent ==
    (pc = "paired" /\ WellFormed) => pair_trades(Rebuilt(trades)) = trades

\* No trade exits at a time of day before its entry's.
NoEarlierExit == \A i \in 1..Len(trades) : trades[i].entry_time <= trades[i].exit_time

\* No two trades of different tickers have the same (date, entry time).
NoTieAcrossTickers ==
    \A i, j \in 1..Len(trades) :
        ( /\ trades[i].ticker # trades[j].ticker
          /\ trades[i].date = trades[j].date )
        => trades[i].entry_time # trades[j].entry_time

\* C8 amended: the same, for the inputs none of whose trades exits at a time
\* of day before its entry's and no two of whose trades of different tickers
\* have the same (date, entry time).
C8_IdempotentSameDay ==
    (pc = "paired" /\ WellFormed /\ NoEarlierExit /\ NoTieAcrossTickers)
        => pair_trades(Rebuilt(trades)) = trades

\* Three round trips of two tickers, one of them short, were paired and
\* rebuilt.
C8_Witness ==
    /\ pc = "paired"
    /\ WellFormed
    /\ NoEarlierExit
    /\ NoTieAcrossTickers
    /\ Len(trades) = 3
    /\ \E i, j \in 1..3 : trades[i].ticker # trades[j].ticker
    /\ \E i \in 1..3 : trades[i].direction = "short"
    /\ Len(Rebuilt(trades)) = 6


\* ---------------------------------------------------------------- C10

\* What a caller of score_trade holds afterwards is a Score.
IsScore(x) ==
    DOMAIN x = {"s1", "s2", "s3", "e1", "e2", "e3", "x1", "x2", "x3",
                "r1", "r2", "t1", "t2", "notes"}

\* C10: for every trade with a positive entry price, every bar list of its
\* date, every benchmark map and every prev_loss (none, a losing trade of the
\* same date, a losing trade of another date), score_trade returns a Score
\* and raises nothing.
C10_NeverRaises ==
    pc = "scored" => IsScore(sc)


\* ---------------------------------------------------------------- C11

\* The 13 sub-scores of a Score, in the order of the dataclass.
SubScores(s) ==
    << s.s1, s.s2, s.s3, s.e1, s.e2, s.e3, s.x1, s.x2, s.x3, s.r1, s.r2, s.t1, s.t2 >>

\* C11: when the bar store has no bars for the trade's date (the date is
\* absent, or its list is empty), score_trade raises nothing and returns a
\* Score whose 13 sub-scores are all 0 (total 0), with an explanatory note and
\* the note of no dimension.
C11_NoBarsUnscored ==
    (pc = "scored" /\ Get(records, trade.date) = <<>>) =>
        /\ IsScore(sc)
        /\ \A i \in 1..13 : SubScores(sc)[i] = 0
        /\ total(sc) = 0
        /\ sc.notes # {}
        /\ sc.notes \cap DimensionKeys = {}

\* A trade scored against an empty bar list, with a previous loss of its date.
C11_Witness ==
    /\ pc = "scored"
    /\ trade.date \in DOMAIN records
    /\ records[trade.date] = <<>>
    /\ prev_loss # None
    /\ prev_loss[1].date = trade.date
    /\ IsScore(sc)


\* ---------------------------------------------------------------- C12

\* The T2 the previous loss calls for: 0 when it is of the trade's date and
\* its exit is less than REVENGE_MIN minutes before the entry, otherwise 5.
ExpectedT2(t, prev) ==
    IF /\ prev # None
       /\ prev[1].date = t.date
       /\ t.entry_time - prev[1].exit_time < REVENGE_MIN
    THEN 0 ELSE 5

\* C12: a trade scored against bars gets T2 = 0 when the previous loss is of
\* the same date and the entry is fewer than 15 minutes after its exit,
\* T2 = 5 when it is of the same date with a gap of 15 minutes or more,
\* T2 = 5 when it is of another date, and T2 = 5 without a previous loss.
C12_RevengeGap ==
    (pc = "scored" /\ Get(records, trade.date) # <<>>) =>
        /\ IsScore(sc)
        /\ sc.t2 = ExpectedT2(trade, prev_loss)


\* ---------------------------------------------------------------- C13

\* The most recent losing trade (pnl_pct < 0) among the first k of ts.
MostRecentLoss(ts, k) ==
    LET losses == { j \in 1..k : FracLt(pnl_pct(ts[j]), Frac(0, 1)) }
    IN  IF losses = {} THEN None ELSE Some(ts[SetMax(losses)])

\* C13: in the batch run the trades are scored one at a time in the
\* (entry date, entry time) order pair_trades produced; the prev_loss handed
\* to the k-th call is the most recent of the first k-1 scored trades with
\* pnl_pct < 0, none when there is no such trade; a winning or breakeven
\* trade never replaces it, and a trade is never its own prev_loss.
C13_PrevLossThreaded ==
    (pc \in {"paired", "crashed"}) =>
        LET valid == valid_trades(trades, data_dir)
            n == Len(results)
            k == IF pc = "crashed" THEN n + 1 ELSE n
        IN  /\ InKeyOrder(valid)
            /\ n <= Len(valid)
            /\ \A i \in 1..n : results[i][1] = valid[i]
            /\ prev_loss = MostRecentLoss(valid, n)
            /\ k >= 1 =>
                 /\ trade = valid[k]
                 /\ sc = score_trade(trade, records, qqq, MostRecentLoss(valid, k - 1))
            /\ \A i \in 1..n :
                 LET passed == MostRecentLoss(valid, i - 1)
                 IN  passed # None =>
                       /\ \E j \in 1..(i - 1) : valid[j] = passed[1]
                       /\ FracLt(pnl_pct(passed[1]), Frac(0, 1))

\* Three trades scored: a loss, then a breakeven or winning trade, then a
\* third trade that was still handed the first one as its prev_loss.
C13_Witness ==
    /\ pc = "paired"
    /\ Len(results) = 3
    /\ FracLt(pnl_pct(results[1][1]), Frac(0, 1))
    /\ ~FracLt(pnl_pct(results[2][1]), Frac(0, 1))
    /\ ~FracLt(pnl_pct(results[3][1]), Frac(0, 1))
    /\ prev_loss = Some(results[1][1])
    /\ trade = results[3][1]


\* ---------------------------------------------------------------- C14

\* The declared maximum of each sub-score, in the order of SubScores.
SubMax == << 10, 10, 10, 10, 10, 5, 10, 5, 5, 10, 5, 5, 5 >>

\* C14: in every Score that score_trade returns, each sub-score is an integer
\* between 0 and its maximum, and the category totals stay within 30 for
\* structure, 25 for entry, 20 for exit, 15 for risk and 10 for sentiment.
C14_SubScoresBounded ==
    (pc = "scored" /\ IsScore(sc)) =>
        /\ \A i \in 1..13 : SubScores(sc)[i] \in 0..SubMax[i]
        /\ structure(sc) <= 30
        /\ entry(sc) <= 25
        /\ exit(sc) <= 20
        /\ risk(sc) <= 15
        /\ sentiment(sc) <= 10

\* A Score with every sub-score at its maximum.
C14_Witness ==
    /\ pc = "scored"
    /\ IsScore(sc)
    /\ SubScores(sc) = SubMax

\* ---------------------------------------------------------------- C15

RECURSIVE SumSeq(_)
\* The sum of a list of numbers.
SumSeq(q) == IF q = <<>> THEN 0 ELSE SumSeq(SubSeq(q, 1, Len(q) - 1)) + q[Len(q)]

\* C15: for every Score the total is the sum of the five category totals,
\* each category total is the sum of its own sub-scores, so that every
\* sub-score is counted exactly once, and the total lies between 0 and 100.
C15_TotalIsSum ==
    (pc = "scored" /\ IsScore(sc)) =>
        /\ total(sc) = structure(sc) + entry(sc) + exit(sc) + risk(sc) + sentiment(sc)
        /\ structure(sc) = sc.s1 + sc.s2 + sc.s3
        /\ entry(sc) = sc.e1 + sc.e2 + sc.e3
        /\ exit(sc) = sc.x1 + sc.x2 + sc.x3
        /\ risk(sc) = sc.r1 + sc.r2
        /\ sentiment(sc) = sc.t1 + sc.t2
        /\ total(sc) = SumSeq(SubScores(sc))
        /\ total(sc) \in 0..100

\* A Score with a full S1, a non-zero X3 and a risk total short of its
\* ceiling.
C15_Witness ==
    /\ pc = "scored"
    /\ IsScore(sc)
    /\ sc.s1 = 10
    /\ sc.x3 = 5
    /\ risk(sc) = 5

\* ---------------------------------------------------------------- C16

\* The band the claim gives a total, and the rank of a band.
BandOf(t) ==
    CHOOSE b \in {"excellent", "good", "moderate", "needs_improvement", "poor"} :
        \/ b = "excellent" /\ t >= 85
        \/ b = "good" /\ t \in 70..84
        \/ b = "moderate" /\ t \in 55..69
        \/ b = "needs_improvement" /\ t \in 40..54
        \/ b = "poor" /\ t < 40
BandRank(b) ==
    CASE b = "excellent" -> 4
      [] b = "good" -> 3
      [] b = "moderate" -> 2
      [] b = "needs_improvement" -> 1
      [] b = "poor" -> 0

\* C16: the grade of a Score is a function of its total alone: 85 and more
\* is excellent, 70..84 good, 55..69 moderate, 40..54 needs-improvement, less
\* than 40 poor; every total of 0..100 has one band, and a higher total never
\* has a lower band (the band never drops from one total to the next).
C16_GradeBands ==
    /\ pc = "rendered" =>
          /\ rendered[1].total = total(sc)
          /\ rendered[1].grade = BandOf(total(sc))
    /\ \A t \in 0..100 : grade_of(t) = BandOf(t)
    /\ \A t \in 0..99 : BandRank(grade_of(t)) <= BandRank(grade_of(t + 1))

\* A Score at the lowest total of the good band.
C16_Witness ==
    /\ pc = "rendered"
    /\ rendered[1].total = 70
    /\ rendered[1].grade = "good"


\* ---------------------------------------------------------------- C17

\* The Python index of the first bar whose time is not before time, the last
\* index when every bar is before it.
FirstAtOrAfter(bars, time) ==
    IF \E i \in 1..Len(bars) : bars[i].time >= time
    THEN (CHOOSE i \in 1..Len(bars) :
            /\ bars[i].time >= time
            /\ \A j \in 1..(i - 1) : bars[j].time < time) - 1
    ELSE Len(bars) - 1

\* The trade is scored against bars and its exit index is before its entry
\* index.
CrossDay ==
    /\ Get(records, trade.date) # <<>>
    /\ FirstAtOrAfter(Get(records, trade.date), trade.exit_time)
         < FirstAtOrAfter(Get(records, trade.date), trade.entry_time)

\* C17: the entry and exit indices are those of the first bars at or after
\* the entry and the exit time; when the exit index is smaller than the
\* entry index, nothing is raised, the Score carries a cross_day note, and the
\* excursions (X1, R1), the bars after the exit (X2) and the holding length
\* (X3) are taken with the index of the day's last bar as the exit index;
\* when the exit index is not smaller, the Score carries no cross_day note.
C17_CrossDayClamped ==
    (pc = "scored" /\ Get(records, trade.date) # <<>>) =>
        LET day == Get(records, trade.date)
            ei == FirstAtOrAfter(day, trade.entry_time)
            xi == FirstAtOrAfter(day, trade.exit_time)
            last == Len(day) - 1
        IN  IF xi < ei
            THEN /\ IsScore(sc)
                 /\ "cross_day" \in sc.notes
                 /\ sc.x1 = ScoreX1(Excursion(day, ei, last, trade), trade)
                 /\ sc.r1 = ScoreR1(Excursion(day, ei, last, trade), trade)
                 /\ sc.x2 = ScoreX2(day, last, trade)
                 /\ sc.x3 = ScoreX3(day, ei, last, trade)
            ELSE IsScore(sc) =>
                 /\ "cross_day" \notin sc.notes
                 /\ sc.x1 = ScoreX1(Excursion(day, ei, xi, trade), trade)
                 /\ sc.r1 = ScoreR1(Excursion(day, ei, xi, trade), trade)
                 /\ sc.x2 = ScoreX2(day, xi, trade)
                 /\ sc.x3 = ScoreX3(day, ei, xi, trade)


\* ---------------------------------------------------------------- C18

\* The entry bar of the trade being scored (the day has bars).
EntryBar ==
    Get(records, trade.date)[FirstAtOrAfter(Get(records, trade.date), trade.entry_time) + 1]

\* The two alignment conditions of S1 for the trade's direction: the close
\* beyond EMA10, and EMA10 beyond EMA20.
PriceAligned(eb, t) ==
    IF t.direction = "long" THEN eb.close > eb.ema10[1] ELSE eb.close < eb.ema10[1]
AveragesAligned(eb, t) ==
    IF t.direction = "long" THEN eb.ema10[1] > eb.ema20[1] ELSE eb.ema10[1] < eb.ema20[1]

\* C18: when the entry bar has both EMA10 and EMA20, S1 is 10 for a long
\* trade with the close above EMA10 and EMA10 above EMA20 (for a short trade
\* with both inequalities reversed), 0 when neither condition is met, and 5
\* when exactly one is met; it is the S1 of the Score returned.
C18_TrendAlignment ==
    (/\ pc = "scored"
     /\ Get(records, trade.date) # <<>>
     /\ EntryBar.ema10 # None
     /\ EntryBar.ema20 # None) =>
        LET a == PriceAligned(EntryBar, trade)
            b == AveragesAligned(EntryBar, trade)
            expected == IF a /\ b THEN 10 ELSE IF ~a /\ ~b THEN 0 ELSE 5
        IN  /\ ScoreS1(EntryBar, sign(trade)) = expected
            /\ IsScore(sc) => sc.s1 = expected

\* A short trade whose entry bar has both averages and closes above EMA10
\* with EMA10 below EMA20: one condition of two, S1 = 5.
C18_Witness ==
    /\ pc = "scored"
    /\ Get(records, trade.date) # <<>>
    /\ trade.direction = "short"
    /\ EntryBar.ema10 # None
    /\ EntryBar.ema20 # None
    /\ ~PriceAligned(EntryBar, trade)
    /\ AveragesAligned(EntryBar, trade)
    /\ IsScore(sc)
    /\ sc.s1 = 5


\* ---------------------------------------------------------------- C19

\* The bars of the holding window of the trade being scored: from the entry
\* index to the exit index, the exit index being the last index for a
\* cross-day trade (the day has bars).
HoldingWindow ==
    LET day == Get(records, trade.date)
        ei == FirstAtOrAfter(day, trade.entry_time)
        xi == FirstAtOrAfter(day, trade.exit_time)
    IN  SubSeq(day, ei + 1, (IF xi < ei THEN Len(day) - 1 ELSE xi) + 1)

\* The realised directional P&L per share of the trade being scored.
RealizedPnl ==
    IF trade.direction = "long" THEN trade.exit_price - trade.entry_price
    ELSE trade.entry_price - trade.exit_price

\* The best favourable excursion: the distance of the entry price from the
\* best price of the window, the highest high of a long trade and the lowest
\* low of a short one.
FavorableExcursion ==
    LET w == HoldingWindow
        best == IF trade.direction = "long"
                THEN CHOOSE h \in { w[i].high : i \in 1..Len(w) } :
                        \A i \in 1..Len(w) : w[i].high <= h
                ELSE CHOOSE l \in { w[i].low : i \in 1..Len(w) } :
                        \A i \in 1..Len(w) : l <= w[i].low
    IN  Abs(best - trade.entry_price)

AdverseExcursion ==
    LET w == HoldingWindow
        worst == IF trade.direction = "long"
                 THEN CHOOSE l \in { w[i].low : i \in 1..Len(w) } :
                         \A i \in 1..Len(w) : l <= w[i].low
                 ELSE CHOOSE h \in { w[i].high : i \in 1..Len(w) } :
                         \A i \in 1..Len(w) : w[i].high <= h
    IN  IF trade.direction = "long"
        THEN Max(0, trade.entry_price - worst)
        ELSE Max(0, worst - trade.entry_price)

\* The holding window never trades on the adverse side of the entry price.
NeverAdverse ==
    \A i \in 1..Len(HoldingWindow) :
        IF trade.direction = "long"
        THEN HoldingWindow[i].low >= trade.entry_price
        ELSE HoldingWindow[i].high <= trade.entry_price

\* C20: R1 compares the maximum adverse excursion, as a fraction of the
\* entry price, with the 3% stop: at most 3% scores 10, at most 4.5% scores
\* 5, more scores 0; in particular a trade whose holding window never trades
\* on the adverse side of its entry price scores R1 = 10.
C20_AdverseExcursion ==
    (pc = "scored" /\ Get(records, trade.date) # <<>> /\ IsScore(sc)) =>
        /\ sc.r1 = IF 100 * AdverseExcursion <= 3 * trade.entry_price THEN 10
                   ELSE IF 1000 * AdverseExcursion <= 45 * trade.entry_price THEN 5
                   ELSE 0
        /\ NeverAdverse => sc.r1 = 10


\* ---------------------------------------------------------------- C21

\* Days of one or two rising bars whose EMA10 and EMA20 are each present or
\* missing: EMA10 needs ten bars of history and EMA20 twenty, and a records
\* file may hold either without the other.
MaxEmaBars == 2
EmaShapes ==
    { [open |-> 100, high |-> 104, low |-> 99, close |-> 103, volume |-> 200,
       ema10 |-> e10, ema20 |-> e20] :
        e10 \in {None, Some(99), Some(101)}, e20 \in {None, Some(100)} }
EmaDays ==
    { [i \in 1..Len(shs) |-> BarOf(i, shs[i])] :
        shs \in SeqsUpTo(EmaShapes, MaxEmaBars) \ {<<>>} }

\* One call of score_trade on a day of EmaDays.
InitEma ==
    /\ orders = <<>>
    /\ trades = <<>>
    /\ pc = "to_score"
    /\ trade \in { t \in ScoredTrades :
                      t.entry_order_time = t.entry_time /\ t.exit_time # 565 }
    /\ records \in { [d \in {ScoreDate} |-> bars] : bars \in EmaDays }
    /\ qqq \in BenchStores
    /\ prev_loss \in PrevLosses
    /\ sc = None
    /\ data_dir = EmptyDict
    /\ results = <<>>
    /\ rendered = None
    /\ OthersIdle

SpecEma == InitEma /\ [][NextScore]_vars

\* C21 as stated: when the entry bar lacks EMA data, S1 is 5 when EMA10 or
\* EMA20 is missing and E3 is 5 when EMA20 is missing, each with a note.
C21_MissingEmaNeutralFive ==
    (pc = "scored" /\ IsScore(sc)) =>
        /\ (EntryBar.ema10 = None \/ EntryBar.ema20 = None) =>
              (sc.s1 = 5 /\ "S1" \in sc.notes)
        /\ EntryBar.ema20 = None => (sc.e3 = 5 /\ "E3" \in sc.notes)

\* C21, amended: when the entry bar lacks EMA data, each dimension that
\* reads it takes the middle value of its own scale, with a note: S1 = 5 (of
\* 0/5/10) when EMA10 or EMA20 is missing, and E3 = 2 (of 0/2/5) when EMA20
\* is missing.
C21_MissingEmaDefaults ==
    (pc = "scored" /\ IsScore(sc)) =>
        /\ (EntryBar.ema10 = None \/ EntryBar.ema20 = None) =>
              (sc.s1 = 5 /\ "S1" \in sc.notes)
        /\ EntryBar.ema20 = None => (sc.e3 = 2 /\ "E3" \in sc.notes)

\* A trade scored on an entry bar that has EMA10 but no EMA20.
C21_Witness ==
    /\ pc = "scored"
    /\ IsScore(sc)
    /\ EntryBar.ema10 # None
    /\ EntryBar.ema20 = None
    /\ sc.s1 = 5
    /\ sc.e3 = 2


\* ---------------------------------------------------------------- C22

\* The values a sub-score out of ten and a sub-score out of five can take.
OutOfTen == {0, 5, 10}
OutOfFive == {0, 2, 5}

\* x is a Score whose 13 sub-dimensions all carry a score and a note.
FullyScored(x) ==
    /\ IsScore(x)
    /\ DimensionKeys \subseteq x.notes
    /\ "error" \notin x.notes
    /\ \A v \in {x.s1, x.s2, x.s3, x.e1, x.e2, x.x1, x.r1} : v \in OutOfTen
    /\ \A v \in {x.e3, x.x2, x.x3, x.r2, x.t1, x.t2} : v \in OutOfFive

\* C22: whenever the trade's date has at least one bar, score_trade assigns
\* every one of the 13 sub-dimensions a score and a note keyed by its code,
\* also when the benchmark has no bars for the date (then S2 = 5), when the
\* entry bar has a zero high-low range (then E2 = 5), and when there are no
\* bars before the entry bar or after the exit bar.
C22_PartialDataScored ==
    (pc = "scored" /\ Get(records, trade.date) # <<>>) =>
        /\ FullyScored(sc)
        /\ Get(qqq, trade.date) = <<>> => sc.s2 = 5
        /\ EntryBar.high = EntryBar.low => sc.e2 = 5

\* The same statement for the calls whose previous loss is none or of
\* another date than the trade.
C22_ScoredUnlessSameDateLoss ==
    (/\ pc = "scored"
     /\ Get(records, trade.date) # <<>>
     /\ (prev_loss = None \/ prev_loss[1].date # trade.date)) =>
        /\ FullyScored(sc)
        /\ Get(qqq, trade.date) = <<>> => sc.s2 = 5
        /\ EntryBar.high = EntryBar.low => sc.e2 = 5

\* A Score returned for a one-bar day with a zero-range entry bar and no
\* benchmark bars.
C22_DegradedReached ==
    /\ pc = "scored"
    /\ Len(Get(records, trade.date)) = 1
    /\ EntryBar.high = EntryBar.low
    /\ Get(qqq, trade.date) = <<>>
    /\ FullyScored(sc)
    /\ sc.s2 = 5 /\ sc.e2 = 5 /\ sc.s3 = 5 /\ sc.e1 = 5


\* ---------------------------------------------------------------- C23

\* Rows of one ticker whose order was submitted five minutes before it
\* filled.
MaxLaggedOrders == 3
LaggedOrders ==
    { [code |-> "AAA", direction |-> d, filled |-> f, fill_time |-> t,
       order_time |-> [date |-> t.date, hm |-> t.hm - 5, ss |-> 0]] :
        d \in Directions, f \in Filleds,
        t \in { [date |-> 1, hm |-> 570, ss |-> 0], [date |-> 1, hm |-> 580, ss |-> 0] } }

\* analyze.py and summary.py each read the same rows and pair them.
InitPairings ==
    /\ orders \in SeqsUpTo(Orders, MaxOrders)
                    \cup SeqsUpTo(MergeOrders, MaxMergeOrders)
                    \cup SeqsUpTo(LaggedOrders, MaxLaggedOrders)
    /\ trades = <<>>
    /\ pc = "loaded"
    /\ NothingToScore
    /\ OthersIdle

\* summary.py: trades = pair_trades(load_orders())
SummaryPairTrades ==
    /\ summary_trades = None
    /\ summary_trades' = Some(summary_pair_trades(orders))
    /\ UNCHANGED <<analysis, facade, limiter>>

NextPairings == PairTrades \/ SummaryPairTrades

SpecPairings == InitPairings /\ [][NextPairings]_vars

\* The Trade of analyze.py with the fields of a Trade of summary.py.
AsAnalyzeTrade(t) ==
    Trade(t.ticker, t.date, t.direction, t.entry_time, t.entry_price, t.order_time,
          t.exit_time, t.exit_price, t.quantity)
AsAnalyzeTrades(ts) == [i \in 1..Len(ts) |-> AsAnalyzeTrade(ts[i])]

\* The locals and the trades list of summary.pair_trades after iteration
\* <<n, k>>.
SummaryPost(n, k) ==
    LET ks == summary_TickerKeys(orders)
    IN  summary_LoopState(
            summary_State(0, None, summary_TickersState(orders, ks, n - 1).trades),
            ks[n], summary_SortOrders(summary_by_ticker(orders, ks[n])), k)

\* C23: for every list of fills both programs have paired,
\* summary.pair_trades and analyze.pair_trades take the tickers and each
\* ticker's rows in the same order, are in the same (position, open entry)
\* state after every row with the same trades emitted so far, and return the
\* same trades in the same order, field by field.
C23_SamePairing ==
    (pc = "paired" /\ summary_trades # None) =>
        /\ summary_TickerKeys(orders) = Keys
        /\ \A s \in Steps :
              LET a == Post(s[1], s[2])
                  b == SummaryPost(s[1], s[2])
              IN  /\ b.pos = a.position
                  /\ b.entry = a.entry
                  /\ AsAnalyzeTrades(b.trades) = a.trades
        /\ AsAnalyzeTrades(summary_trades[1]) = trades

\* Both programs have paired rows that give two trades, which the final sort
\* puts in another order than they were emitted in.
C23_Witness ==
    /\ pc = "paired"
    /\ summary_trades # None
    /\ Len(trades) = 2
    /\ trades # TickersState(orders, Keys, Len(Keys)).trades
    /\ AsAnalyzeTrades(summary_trades[1]) = trades

\* Both programs have paired a round trip whose order time is not its entry
\* time and whose exit is smaller than its entry.
C23_WitnessFields ==
    /\ pc = "paired"
    /\ summary_trades # None
    /\ Len(trades) = 1
    /\ trades[1].entry_order_time # trades[1].entry_time
    /\ summary_trades[1][1].quantity = 1
    /\ Post(1, 1).position = 2


\* ---------------------------------------------------------------- C24

\* The position and the open entry of a loop state fit each other.
StateConsistent(st) ==
    /\ st.position = 0 <=> st.entry = None
    /\ st.entry # None =>
          /\ Abs(st.position) = parse_filled(st.entry[1].filled).qty
          /\ st.position > 0 <=> st.entry[1].direction = "buy"
          /\ st.position < 0 <=> st.entry[1].direction = "short"

\* C24: after any prefix of a ticker's fills (filled quantities > 0),
\* position is 0 exactly when open_entry is none; when open_entry is present,
\* |position| is that fill's filled quantity, position > 0 iff the open entry
\* is a buy and position < 0 iff it is a short-sell.
C24_StateInvariant ==
    pc = "paired" =>
        \A s \in Steps :
            /\ parse_filled(Sorted(s[1])[s[2]].filled).qty > 0
            /\ StateConsistent(Pre(s[1], s[2]))
            /\ StateConsistent(Post(s[1], s[2]))

\* A ticker's loop has been long two shares, flat again, and then short one
\* share.
C24_Witness ==
    /\ pc = "paired"
    /\ \E n \in 1..Len(Keys) :
          /\ Len(Sorted(n)) = 3
          /\ Post(n, 1).position = 2
          /\ Post(n, 2).position = 0 /\ Post(n, 2).entry = None
          /\ Post(n, 3).position = -1
          /\ Post(n, 3).entry = Some(Sorted(n)[3])


\* ---------------------------------------------------------------- C25

\* The iterations of the n-th ticker's loop that emit a Trade, and those
\* that open a position.
ClosingSteps(n) ==
    { k \in 1..Len(Sorted(n)) : Len(Post(n, k).trades) = Len(Pre(n, k).trades) + 1 }
OpeningSteps(n) ==
    { k \in 1..Len(Sorted(n)) : Pre(n, k).entry = None /\ Post(n, k).entry # None }

\* The iterations before k that opened a position, and the latest of them:
\* the iteration whose fill is the entry of the Trade emitted at k.
OpenedBefore(n, k) == { j \in OpeningSteps(n) : j < k }
EntryStep(n, k) == CHOOSE j \in OpenedBefore(n, k) : \A i \in OpenedBefore(n, k) : i <= j

\* C25: in the fill stream of one ticker every Trade is emitted by an
\* iteration of its own (its exit fill) and has an entry fill taken at an
\* earlier iteration, with entry fill time <= exit fill time; no fill both
\* opens and closes; the exit of one Trade comes before the entry of the
\* next, so no fill is the entry or the exit of two trades; and the trades
\* are at most floor(number of fills / 2).
C25_DisjointFills ==
    pc = "paired" =>
        \A n \in 1..Len(Keys) :
            /\ Len(Post(n, Len(Sorted(n))).trades) - Len(Pre(n, 1).trades)
                  = Cardinality(ClosingSteps(n))
            /\ ClosingSteps(n) \cap OpeningSteps(n) = {}
            /\ \A k \in ClosingSteps(n) :
                  /\ OpenedBefore(n, k) # {}
                  /\ Pre(n, k).entry = Some(Sorted(n)[EntryStep(n, k)])
                  /\ EntryStep(n, k) < k
                  /\ DtLeq(parse_dt(Sorted(n)[EntryStep(n, k)].fill_time),
                           parse_dt(Sorted(n)[k].fill_time))
                  /\ \A k0 \in ClosingSteps(n) : k0 < k => k0 < EntryStep(n, k)
            /\ 2 * Cardinality(ClosingSteps(n)) <= Len(Sorted(n))

\* One ticker's four fills give two trades: open, close, open, close.
C25_Witness ==
    /\ pc = "paired"
    /\ \E n \in 1..Len(Keys) :
          /\ Len(Sorted(n)) = 4
          /\ ClosingSteps(n) = {2, 4}
          /\ OpeningSteps(n) = {1, 3}
          /\ Len(trades) = 2


\* ---------------------------------------------------------------- C26

\* The entry index and the exit index score_trade works with for the trade
\* being scored (the day has bars).
EntryIndex == bar_at(Get(records, trade.date), trade.entry_time)
ExitIndex ==
    exit_index(Get(records, trade.date), EntryIndex,
               bar_at(Get(records, trade.date), trade.exit_time))

\* No bar of the day is at or after the time.
AfterLastBar(time) ==
    \A i \in 1..Len(Get(records, trade.date)) : Get(records, trade.date)[i].time < time

\* C26: for every trade scored against a non-empty day of bars, bar_at gives
\* the last index when no bar has time >= the given time, the indices
\* satisfy 0 <= entry index <= exit index <= len(bars) - 1 after the
\* cross-day clamp, the holding window bars[entry index .. exit index] is not
\* empty, and best and worst are taken from its bars, not from the exit and
\* entry price.
C26_IndicesInRange ==
    (pc = "scored" /\ Get(records, trade.date) # <<>>) =>
        LET day == Get(records, trade.date)
            window == Slice(day, EntryIndex, ExitIndex + 1)
            ex == Excursion(day, EntryIndex, ExitIndex, trade)
        IN  /\ AfterLastBar(trade.entry_time) => EntryIndex = Len(day) - 1
            /\ AfterLastBar(trade.exit_time) =>
                  bar_at(day, trade.exit_time) = Len(day) - 1
            /\ 0 <= EntryIndex
            /\ EntryIndex <= ExitIndex
            /\ ExitIndex <= Len(day) - 1
            /\ window # <<>>
            /\ Len(window) = ExitIndex - EntryIndex + 1
            /\ {ex.best, ex.worst} = {MaxHigh(window), MinLow(window)}
            /\ IsScore(sc) =>
                  /\ sc.x1 = ScoreX1(ex, trade)
                  /\ sc.r1 = ScoreR1(ex, trade)

\* A cross-day trade scored on a two-bar day: the entry is after the last
\* bar and the exit before the first, and the window is the last bar alone.
C26_Witness ==
    /\ pc = "scored"
    /\ Len(Get(records, trade.date)) = 2
    /\ AfterLastBar(trade.entry_time)
    /\ bar_at(Get(records, trade.date), trade.exit_time) = 0
    /\ EntryIndex = 1
    /\ ExitIndex = 1
    /\ IsScore(sc)


\* ---------------------------------------------------------------- C27

\* The server has started and serves POST /api/update.
InitFacade ==
    /\ orders = <<>>
    /\ trades = <<>>
    /\ pc = "loaded"
    /\ NothingToScore
    /\ OthersIdle

\* with _update_lock:  (the request takes the lock)
AcquireLock(r) ==
    /\ requests[r].at = "idle"
    /\ LockFree
    /\ update_lock' = Some(r)
    /\ requests' = [requests EXCEPT ![r].at = "locked"]
    /\ UNCHANGED <<update_status, jobs>>
    /\ UNCHANGED <<analysis, summary_trades, limiter>>

\* if _update_status["running"]: return {"status": "already_running"}
\* (leaving the with block releases the lock)
CheckRunning(r) ==
    /\ requests[r].at = "locked"
    /\ IF update_status.running
       THEN /\ requests' = [requests EXCEPT
                               ![r] = Request("done", Some(TRUE), Some("already_running"))]
            /\ update_lock' = None
       ELSE /\ requests' = [requests EXCEPT ![r] = Request("set_running", Some(FALSE), None)]
            /\ UNCHANGED update_lock
    /\ UNCHANGED <<update_status, jobs>>
    /\ UNCHANGED <<analysis, summary_trades, limiter>>

\* _update_status["running"] = True
SetRunning(r) ==
    /\ requests[r].at = "set_running"
    /\ update_status' = [update_status EXCEPT !.running = TRUE]
    /\ requests' = [requests EXCEPT ![r].at = "clear_error"]
    /\ UNCHANGED <<update_lock, jobs>>
    /\ UNCHANGED <<analysis, summary_trades, limiter>>

\* _update_status["error"] = None  (and the end of the with block)
ClearError(r) ==
    /\ requests[r].at = "clear_error"
    /\ update_status' = [update_status EXCEPT !.error = None]
    /\ update_lock' = None
    /\ requests' = [requests EXCEPT ![r].at = "spawn"]
    /\ UNCHANGED jobs
    /\ UNCHANGED <<analysis, summary_trades, limiter>>

\* threading.Thread(target=run, daemon=True).start(); return {"status": "started"}
StartThread(r) ==
    /\ requests[r].at = "spawn"
    /\ jobs' = [jobs EXCEPT ![r] = "running"]
    /\ requests' = [requests EXCEPT ![r].at = "done", ![r].response = Some("started")]
    /\ UNCHANGED <<update_lock, update_status>>
    /\ UNCHANGED <<analysis, summary_trades, limiter>>

\* run: subprocess.run(cmd, ...) returns; _update_status["last_run"] = now
\* (the time of the run is named by its request)
JobSucceeds(r) ==
    /\ jobs[r] = "running"
    /\ update_status' = [update_status EXCEPT !.last_run = Some(r)]
    /\ jobs' = [jobs EXCEPT ![r] = "succeeded"]
    /\ UNCHANGED <<update_lock, requests>>
    /\ UNCHANGED <<analysis, summary_trades, limiter>>

\* run: subprocess.run raises; except Exception as e:
\* _update_status["error"] = str(e)
JobRaises(r) ==
    /\ jobs[r] = "running"
    /\ update_status' = [update_status EXCEPT !.error = Some("exception")]
    /\ jobs' = [jobs EXCEPT ![r] = "raised"]
    /\ UNCHANGED <<update_lock, requests>>
    /\ UNCHANGED <<analysis, summary_trades, limiter>>

\* run: finally: _update_status["running"] = False
JobFinally(r) ==
    /\ jobs[r] \in {"succeeded", "raised"}
    /\ update_status' = [update_status EXCEPT !.running = FALSE]
    /\ jobs' = [jobs EXCEPT ![r] = IF jobs[r] = "raised" THEN "ended_raised"
                                   ELSE "ended_ok"]
    /\ UNCHANGED <<update_lock, requests>>
    /\ UNCHANGED <<analysis, summary_trades, limiter>>

NextFacade ==
    \E r \in Requests :
        \/ AcquireLock(r)
        \/ CheckRunning(r)
        \/ SetRunning(r)
        \/ ClearError(r)
        \/ StartThread(r)
        \/ JobSucceeds(r)
        \/ JobRaises(r)
        \/ JobFinally(r)

SpecFacade == InitFacade /\ [][NextFacade]_vars

\* The requests that have set running and whose job has not ended, and the
\* jobs whose thread is running.
Claimed ==
    { r \in Requests :
        \/ requests[r].at \in {"clear_error", "spawn"}
        \/ jobs[r] \in {"running", "succeeded", "raised"} }
RunningJobs == { r \in Requests : jobs[r] \in {"running", "succeeded", "raised"} }

\* C27: in every interleaving of POST /api/update requests and job
\* completions at most one fetch job runs at a time; at most one request at a
\* time has found running false, it sets running = true and it alone gets
\* "started" and a job; a request that finds running true gets
\* "already_running" and starts no job; running is true exactly from the
\* moment it is set until the job's end, normal or by an exception, sets it
\* back to false.
C27_UpdateMutex ==
    /\ Cardinality(RunningJobs) <= 1
    /\ Cardinality(Claimed \cup { r \in Requests : requests[r].at = "set_running" }) <= 1
    /\ update_status.running <=> Claimed # {}
    /\ \A r \in Requests :
          /\ requests[r].at = "done" =>
                requests[r].response = IF requests[r].saw = Some(TRUE)
                                       THEN Some("already_running")
                                       ELSE Some("started")
          /\ requests[r].response = Some("started") => jobs[r] # "none"
          /\ requests[r].response # Some("started") => jobs[r] = "none"
          /\ jobs[r] \in {"ended_ok", "ended_raised"} => r \notin Claimed

\* A job has ended by an exception and running is false again; a request
\* that arrived during that job got "already_running"; a third request after
\* it got "started" and its job has ended normally.
C27_Witness ==
    \E a, b, c \in Requests :
        /\ jobs[a] = "ended_raised"
        /\ requests[b].response = Some("already_running")
        /\ jobs[b] = "none"
        /\ requests[c].response = Some("started")
        /\ jobs[c] = "ended_ok"
        /\ ~update_status.running


\* ---------------------------------------------------------------- C28

\* main: rate_limiter = RateLimiter(RATE_LIMIT_PER_MIN)
InitLimiter ==
    /\ orders = <<>>
    /\ trades = <<>>
    /\ pc = "loaded"
    /\ NothingToScore
    /\ OthersIdle

\* throttle: now = time.monotonic(); the timestamps younger than 60 seconds
\* are kept; at the limit the call computes its wait and goes to sleep.
ThrottleEnter ==
    /\ limiter_pc = "idle"
    /\ Len(recorded) < MaxCalls
    /\ LET now == clock
           kept == recent(timestamps, now)
       IN  /\ timestamps' = kept
           /\ IF Len(kept) >= RATE_LIMIT_PER_MIN
              THEN /\ wait' = throttle_wait(now, kept[1])
                   /\ limiter_pc' = "sleep"
              ELSE /\ wait' = 0
                   /\ limiter_pc' = "append"
    /\ UNCHANGED <<clock, recorded>>
    /\ UNCHANGED <<analysis, summary_trades, facade>>

\* time.sleep(wait)
Sleep ==
    /\ limiter_pc = "sleep"
    /\ clock' = clock + wait
    /\ limiter_pc' = "append"
    /\ UNCHANGED <<timestamps, wait, recorded>>
    /\ UNCHANGED <<analysis, summary_trades, facade>>

\* self._timestamps.append(time.monotonic()): the clock is read again.
AppendTimestamp ==
    /\ limiter_pc = "append"
    /\ \E late \in Lateness :
          /\ clock' = clock + late
          /\ timestamps' = Append(timestamps, clock + late)
          /\ recorded' = Append(recorded, clock + late)
    /\ limiter_pc' = "fetch"
    /\ UNCHANGED wait
    /\ UNCHANGED <<analysis, summary_trades, facade>>

\* fetch_chunks: yf.download(...) and the way back to rate_limiter.throttle()
Download ==
    /\ limiter_pc = "fetch"
    /\ \E gap \in Gaps : clock' = clock + gap
    /\ limiter_pc' = "idle"
    /\ UNCHANGED <<timestamps, wait, recorded>>
    /\ UNCHANGED <<analysis, summary_trades, facade>>

NextLimiter == ThrottleEnter \/ Sleep \/ AppendTimestamp \/ Download

SpecLimiter == InitLimiter /\ [][NextLimiter]_vars

\* The calls that returned in the 60 seconds that begin at time t (a call
\* exactly 60 seconds after t is outside them).
ReturnedWithin(t) ==
    { j \in 1..Len(recorded) : t <= recorded[j] /\ recorded[j] < t + WINDOW }

\* C28: over any sequence of throttle() calls on one limiter, the calls that
\* returned within any window of 60 seconds are never more than
\* max_per_minute (5 for fetch_chunks); a call goes on without a wait only
\* when fewer than max_per_minute requests are younger than 60 seconds, and
\* a call that waits goes on when the oldest recorded request is more than
\* 60 seconds old.
C28_SlidingWindow ==
    /\ \A i \in 1..Len(recorded) :
          Cardinality(ReturnedWithin(recorded[i])) <= RATE_LIMIT_PER_MIN
    /\ limiter_pc = "sleep" =>
          /\ Len(timestamps) >= RATE_LIMIT_PER_MIN
          /\ clock + wait - timestamps[1] > WINDOW
    /\ (limiter_pc = "append" /\ wait = 0) =>
          Len(recent(timestamps, clock)) < RATE_LIMIT_PER_MIN
    /\ (limiter_pc = "append" /\ wait > 0) =>
          /\ clock - timestamps[1] > WINDOW
          /\ Len(recent(timestamps, clock)) < RATE_LIMIT_PER_MIN

\* Five calls returned in one burst, the sixth waited for the first of them
\* to be more than 60 seconds old and has returned.
C28_Witness ==
    /\ Len(recorded) >= 6
    /\ Cardinality(ReturnedWithin(recorded[1])) = RATE_LIMIT_PER_MIN
    /\ wait > 0
    /\ limiter_pc = "fetch"
    /\ recorded[6] - recorded[1] > WINDOW

====
